---- MODULE Spec2Model ----
(***************************************************************************)
(* Model of the grader-orchestration worker:                               *)
(*   sandbox.rs  execute_in_sandbox and its helpers, drop_privileges       *)
(*   worker.rs   main, handle_grade, grade_with_full_pipeline,             *)
(*               run_test_suite, compile_code                              *)
(*   fuzzer.rs   Fuzzer::run_fuzz_campaign (the per-input loop)            *)
(* One action per step between two points where the code can fail, return  *)
(* or suspend.  The environment (kernel, child process, toolchain, remote  *)
(* fixture service) is a nondeterministic choice over its outcomes.        *)
(***************************************************************************)
EXTENDS Integers, Sequences, FiniteSets, TLC

(***************************************************************************)
(* Bounds of the model                                                     *)
(***************************************************************************)
\* largest number of fixtures the remote service returns for one list
MaxFixtures == 1
\* number of environment faults (failed system calls, children that overrun
\* their time limit) injected in one behaviour
MaxFaults == 1
\* Fuzzer::new(100, ..) in worker.rs:127, scaled down
max_iterations == 2
\* generate_input_variations(.., 10, ..) in fuzzer.rs:71, scaled down
NumVariations == 2
\* `for _ in 0..50` in fuzzer.rs:76, scaled down
NumRandomInputs == 1

(***************************************************************************)
(* Program constants                                                       *)
(***************************************************************************)
NOBODY == 65534
GAS_START == 100
GAS_COMPLETE == 200
GAS_RESULT == 300
PASS_THRESHOLD == 70
CRASH_PENALTY == 5
DEFAULT_TIME_LIMIT == 30
FIXTURE_DEFAULT_TIMEOUT == 30
COVERAGE_POINTS == 1000

MB == 1024 * 1024
\* RLIM_INFINITY
RLIM_INFINITY == -1
\* Option::None of an exit code (the child was killed by a signal)
None == -1

Min(a, b) == IF a <= b THEN a ELSE b

\* f64 values as exact fractions in lowest terms, none of them negative
RECURSIVE GCD(_, _)
GCD(a, b) == IF b = 0 THEN a ELSE GCD(b, a % b)
Rat(n, d) == IF n = 0 THEN [num |-> 0, den |-> 1]
             ELSE [num |-> n \div GCD(n, d), den |-> d \div GCD(n, d)]
RAdd(a, b) == Rat(a.num * b.den + b.num * a.den, a.den * b.den)
\* a - b for a >= b
RSub(a, b) == Rat(a.num * b.den - b.num * a.den, a.den * b.den)
RMul(a, b) == Rat(a.num * b.num, a.den * b.den)
RDiv(a, b) == Rat(a.num * b.den, a.den * b.num)
RGt(a, b) == a.num * b.den > b.num * a.den
RGeq(a, b) == a.num * b.den >= b.num * a.den
\* f64::max and f64::min
RMax(a, b) == IF RGeq(a, b) THEN a ELSE b
RMin(a, b) == IF RGeq(a, b) THEN b ELSE a
Zero == Rat(0, 1)
One == Rat(1, 1)

(***************************************************************************)
(* f64 arithmetic.  A natural number of any size is the sequence of its    *)
(* digits to the base 2^15, the lowest first and the highest not 0; an f64 *)
(* that is finite and not negative is m * 2^e with m of 53 bits, or 0.     *)
(* Every operation rounds its exact result to the nearest f64, a tie to    *)
(* the even mantissa (IEEE 754 binary64, round-to-nearest-even).           *)
(***************************************************************************)
\* the bits of the mantissa of an f64
MantissaBits == 53

\* the one element of a set of one element: {f(v) : v \in {e}} computes e once
The(S) == CHOOSE v \in S : TRUE

RECURSIVE Pow2(_)
Pow2(n) == IF n = 0 THEN 1 ELSE 2 * Pow2(n - 1)

RECURSIVE NTrim(_)
NTrim(a) == IF a # <<>> /\ a[Len(a)] = 0 THEN NTrim(SubSeq(a, 1, Len(a) - 1)) ELSE a

RECURSIVE NFromInt(_)
NFromInt(n) == IF n = 0 THEN <<>> ELSE <<n % 32768>> \o NFromInt(n \div 32768)

RECURSIVE NAddC(_, _, _)
NAddC(a, b, carry) ==
  IF a = <<>> /\ b = <<>> THEN (IF carry = 0 THEN <<>> ELSE <<carry>>)
  ELSE LET x == (IF a = <<>> THEN 0 ELSE Head(a)) + (IF b = <<>> THEN 0 ELSE Head(b)) + carry
       IN <<x % 32768>> \o NAddC(IF a = <<>> THEN a ELSE Tail(a),
                                IF b = <<>> THEN b ELSE Tail(b), x \div 32768)
NAdd(a, b) == NAddC(a, b, 0)

\* a - b for a >= b
RECURSIVE NSubB(_, _, _)
NSubB(a, b, borrow) ==
  IF a = <<>> THEN <<>>
  ELSE LET x == Head(a) - (IF b = <<>> THEN 0 ELSE Head(b)) - borrow
       IN <<(x + 32768) % 32768>> \o NSubB(Tail(a), IF b = <<>> THEN b ELSE Tail(b),
                                         IF x < 0 THEN 1 ELSE 0)
NSub(a, b) == NTrim(NSubB(a, b, 0))

\* -1, 0 or 1 as a is less than, equal to or greater than b
RECURSIVE NCmpFrom(_, _, _)
NCmpFrom(a, b, i) ==
  IF i = 0 THEN 0
  ELSE IF a[i] < b[i] THEN -1
  ELSE IF a[i] > b[i] THEN 1
  ELSE NCmpFrom(a, b, i - 1)
NCmp(a, b) ==
  IF Len(a) < Len(b) THEN -1
  ELSE IF Len(a) > Len(b) THEN 1
  ELSE NCmpFrom(a, b, Len(a))

\* a * k + carry for k and carry below the base
RECURSIVE NMulSmall(_, _, _)
NMulSmall(a, k, carry) ==
  IF a = <<>> THEN (IF carry = 0 THEN <<>> ELSE <<carry>>)
  ELSE LET x == Head(a) * k + carry
       IN <<x % 32768>> \o NMulSmall(Tail(a), k, x \div 32768)

NShiftDigits(a, n) == IF a = <<>> THEN a ELSE [i \in 1..n |-> 0] \o a

RECURSIVE NMul(_, _)
NMul(a, b) ==
  IF b = <<>> THEN <<>>
  ELSE NAdd(NTrim(NMulSmall(a, Head(b), 0)), NShiftDigits(NMul(a, Tail(b)), 1))

\* a * 2^n
NShl(a, n) == NShiftDigits(NTrim(NMulSmall(a, Pow2(n % 15), 0)), n \div 15)

RECURSIVE BitLenSmall(_)
BitLenSmall(d) == IF d = 0 THEN 0 ELSE 1 + BitLenSmall(d \div 2)
NBitLen(a) == IF a = <<>> THEN 0 ELSE 15 * (Len(a) - 1) + BitLenSmall(a[Len(a)])

\* bit i of a, bit 0 the lowest
NBit(a, i) ==
  IF i \div 15 >= Len(a) THEN 0
  ELSE (a[i \div 15 + 1] \div Pow2(i % 15)) % 2

\* floor(a / 2^n)
ShrDigit(a, lo) ==
  NBit(a, lo) + 2 * NBit(a, lo + 1) + 4 * NBit(a, lo + 2) + 8 * NBit(a, lo + 3)
  + 16 * NBit(a, lo + 4) + 32 * NBit(a, lo + 5) + 64 * NBit(a, lo + 6)
  + 128 * NBit(a, lo + 7) + 256 * NBit(a, lo + 8) + 512 * NBit(a, lo + 9)
  + 1024 * NBit(a, lo + 10) + 2048 * NBit(a, lo + 11) + 4096 * NBit(a, lo + 12)
  + 8192 * NBit(a, lo + 13) + 16384 * NBit(a, lo + 14)
NShr(a0, n) ==
  The({IF NBitLen(a) <= n THEN <<>>
       ELSE [k \in 1..((NBitLen(a) - n + 15 - 1) \div 15)
               |-> ShrDigit(a, n + 15 * (k - 1))] : a \in {a0}})

\* floor(n / d) and n mod d by long division: the bits of n from bit i down
\* to bit lo, st the quotient and the remainder of the bits above them
RECURSIVE NDivBits(_, _, _, _, _)
NDivBits(n, d, i, lo, st) ==
  IF i < lo THEN st
  ELSE LET r2 == NTrim(NMulSmall(st.r, 2, NBit(n, i)))
       IN IF NCmp(r2, d) >= 0
          THEN NDivBits(n, d, i - 1, lo, [q |-> NTrim(NMulSmall(st.q, 2, 1)), r |-> NSub(r2, d)])
          ELSE NDivBits(n, d, i - 1, lo, [q |-> NTrim(NMulSmall(st.q, 2, 0)), r |-> r2])
\* the same for the digits of n from digit k down
RECURSIVE NDivDigits(_, _, _, _)
NDivDigits(n, d, k, st) ==
  IF k = 0 THEN st
  ELSE NDivDigits(n, d, k - 1, NDivBits(n, d, 15 * k - 1, 15 * (k - 1), st))
NDivMod(n0, d0) ==
  The({NDivDigits(n, d, Len(n), [q |-> <<>>, r |-> <<>>]) : n \in {n0}, d \in {d0}})

F64Zero == [m |-> <<>>, e |-> 0]

\* the f64 nearest to n * 2^e
RoundTo(q0, up, e) ==
  The({IF NBitLen(q) > MantissaBits THEN [m |-> NShr(q, 1), e |-> e + 1]
       ELSE [m |-> q, e |-> e] : q \in {IF up THEN NAdd(q0, <<1>>) ELSE q0}})
RoundBits(n, e, s) ==
  IF n = <<>> THEN F64Zero
  ELSE IF s <= 0 THEN [m |-> NShl(n, -s), e |-> e + s]
  ELSE The({RoundTo(q, /\ NBit(n, s - 1) = 1
                       /\ \/ \E i \in 0..(s - 2) : NBit(n, i) = 1
                          \/ NBit(q, 0) = 1,
                    e + s) : q \in {NShr(n, s)}})
RoundF64(n0, e) == The({RoundBits(n, e, NBitLen(n) - MantissaBits) : n \in {n0}})

\* n as f64
F64(n) == RoundF64(NFromInt(n), 0)

FAdd(x0, y0) ==
  The({IF x.m = <<>> THEN y
       ELSE IF y.m = <<>> THEN x
       ELSE IF x.e <= y.e THEN RoundF64(NAdd(x.m, NShl(y.m, y.e - x.e)), x.e)
       ELSE RoundF64(NAdd(NShl(x.m, x.e - y.e), y.m), y.e) : x \in {x0}, y \in {y0}})

\* x - y for x >= y
FSub(x0, y0) ==
  The({IF y.m = <<>> THEN x
       ELSE IF x.e <= y.e THEN RoundF64(NSub(x.m, NShl(y.m, y.e - x.e)), x.e)
       ELSE RoundF64(NSub(NShl(x.m, x.e - y.e), y.m), y.e) : x \in {x0}, y \in {y0}})

FMul(x0, y0) == The({RoundF64(NMul(x.m, y.m), x.e + y.e) : x \in {x0}, y \in {y0}})

\* x / y for y # 0: the quotient of the mantissas to 56 bits or more, and
\* one more bit that tells whether there is a remainder
FDiv(x0, y0) ==
  The({IF x.m = <<>> THEN F64Zero
       ELSE The({RoundF64(NTrim(NMulSmall(d.q, 2, IF d.r = <<>> THEN 0 ELSE 1)),
                          x.e - y.e - 57) : d \in {NDivMod(NShl(x.m, 56), y.m)}})
       : x \in {x0}, y \in {y0}})

FGt(x, y) ==
  IF x.m = <<>> THEN FALSE
  ELSE IF y.m = <<>> THEN TRUE
  ELSE x.e > y.e \/ (x.e = y.e /\ NCmp(x.m, y.m) > 0)
FGeq(x, y) == x = y \/ FGt(x, y)
\* f64::max and f64::min
FMax(a, b) == IF FGeq(a, b) THEN a ELSE b
FMin(a, b) == IF FGeq(a, b) THEN b ELSE a
\* the f64 of the decimal literal n/d (the nearest to it)
Lit(n, d) == FDiv(F64(n), F64(d))
F64One == F64(1)

(***************************************************************************)
(* SandboxConfig values built by the callers (time_limit in milliseconds)  *)
(***************************************************************************)
SandboxConfig(t, m, c, n, f, p, d) ==
  [time_limit |-> t, memory_limit |-> m, cpu_limit |-> c, network_disabled |-> n,
   max_file_size |-> f, max_processes |-> p, disk_quota |-> d]

DefaultConfig == SandboxConfig(30 * 1000, 512 * MB, 50, TRUE, 10 * MB, 10, 100 * MB)
CompileConfig == SandboxConfig(60 * 1000, 1024 * MB, 50, TRUE, 100 * MB, 10, 500 * MB)
ForgeTestConfig == SandboxConfig(300 * 1000, 1024 * MB, 50, TRUE, 100 * MB, 10, 500 * MB)
TestConfig(fixture_timeout, time_limit) ==
  SandboxConfig(Min(fixture_timeout, time_limit) * 1000, 512 * MB, 25, TRUE, 10 * MB, 5, 50 * MB)
FuzzConfig == SandboxConfig(5 * 1000, 256 * MB, 25, TRUE, 1 * MB, 5, 10 * MB)

VARIABLES
  \* ---- the worker process (main, drop_privileges)
  wpc,              \* "boot" | "serving"
  started_as_root,  \* whether the process was started with uid 0
  uid, gid,         \* credentials of the worker process
  rlimits,          \* resource limits of the worker process
  \* ---- kernel objects
  cgroups,          \* names of the control groups that exist
  mounts,           \* mount points with a tmpfs mounted
  tmpdirs,          \* fathuss_temp_* directories that exist
  faults,           \* environment faults injected so far
  \* ---- one execute_in_sandbox call
  xpc,              \* position in execute_in_sandbox
  config,           \* its SandboxConfig
  trace_events,     \* its local trace_events vector
  cgroup,           \* name of the cgroup it created (0: none)
  temp_mount_point, \* its ephemeral volume (0: none)
  child,            \* the spawned child process
  execution_result, \* value of the timeout(..).await
  result,           \* the value bound to `result` by the match
  ret,              \* what the caller receives
  \* ---- handle_grade and one grade_with_full_pipeline invocation
  reqs,             \* per request: "new" | "waiting" | "running" | "done"
  job,              \* the payload of the request being handled
  ppc,              \* position in grade_with_full_pipeline
  workspace_exists, \* whether the directory workspace_path names exists
  public_fixtures,
  hidden_fixtures,
  compile_result,
  suite,            \* locals of run_test_suite: the fixture index and `result`
  public_test_results,
  hidden_test_results,
  fuzz,             \* locals of Fuzzer::run_fuzz_campaign
  fuzz_result,
  response,         \* what grade_with_full_pipeline returned
  \* ---- history
  calls,            \* the sandboxed executions of the invocation, in order,
                    \* each with the stage that made it and how it ended
  \* ---- one FixtureManager call, the cache directory
  fx_pc,            \* position in fetch_challenge_fixtures / fetch_hidden_tests
  fx_kind,          \* which of the two is running: "public" | "hidden"
  fx_n,             \* fetches started so far
  fx_cached,        \* what get_cached_fixtures returned
  cache_content,    \* the text get_cached_fixtures read (its cache_content)
  fx_body,          \* the JSON body of the response
  fx_fixtures,      \* what parse_fixtures returned for the body
  fx_ret,           \* what the caller of the fetch receives
  cache_file,       \* the file fixtures_<id>.json of the cache directory
  \* ---- history of the fixture manager
  fx_log,           \* cache accesses and GET requests of the current fetch
  miss_result,      \* the fixtures the last fetch cached and returned, while
                    \* the cache file is as that fetch left it
  \* ---- history of the pipeline
  input_files,      \* the ids of the test_input_<id>.json files run_test_suite
                    \* wrote that are in the workspace
  fetched,          \* how the two fetches and the fuzz campaign of the pipeline
                    \* ended, before unwrap_or_else and unwrap_or: "none" | "ok" |
                    \* "failed" for each
  \* ---- two campaigns of the fuzzer up to their test inputs (fuzzer.rs
  \*      59-84), each a function of the campaign
  fz_pc,            \* "idle" | "start" | "variations" | "random" | "shuffle" |
                    \* "take" | "done"
  seed,             \* Fuzzer::seed
  base_fixtures,    \* the inputs of the base fixtures
  rng,              \* the state of the campaign's StdRng
  fuzz_inputs,      \* the inputs generated so far
  test_inputs,      \* the inputs the campaign will execute
  \* ---- one check_plagiarism of the anti-cheat engine (anti_cheat.rs 52-94)
  ac_pc,            \* "idle" | "compare" | "assess" | "done"
  submission_database, \* the stored submissions: key |-> fingerprint
  fingerprint,      \* the fingerprint of the submission that is checked
  unvisited,        \* the keys the loop over the database has yet to visit
  matches,          \* the matches pushed so far
  plagiarism_result,\* the PlagiarismResult returned
  user_id,          \* the user whose submission is checked
  \* ---- history of the check
  compared_keys,    \* the keys calculate_similarity was called for
  \* ---- one run_test_suite with the clock readings of its executions
  \*      (worker.rs 300-383, sandbox.rs 63-158)
  tr_pc,            \* "idle" | "loop" | "exec" | "done"
  tr_language,      \* language
  tr_total,         \* fixtures.len()
  tr_i,             \* fixtures the loop has finished
  tr_events,        \* trace_events of the latest execute_in_sandbox
  tr_result,        \* result.trace_events of the suite
  tr_ret,           \* what run_test_suite returned
  \* ---- one calculate_similarity with its values as f64 (anti_cheat.rs
  \*      346-387)
  sm_pc,            \* "idle" | "hash" | "token" | "structural" | "combine" | "done"
  sm_fp1,           \* fp1
  sm_fp2,           \* fp2
  sm_hash,          \* hash_similarity
  sm_token,         \* token_similarity
  sm_structural,    \* structural_similarity
  sm_ret            \* the f64 returned

sandboxVars == <<xpc, config, trace_events, cgroup, temp_mount_point, child,
                 execution_result, result, ret>>
kernelVars == <<cgroups, mounts, tmpdirs, faults>>
credVars == <<wpc, started_as_root, uid, gid>>
pipeVars == <<reqs, job, ppc, workspace_exists, public_fixtures, hidden_fixtures,
              compile_result, suite, public_test_results, hidden_test_results,
              fuzz, fuzz_result, response>>
fixtureVars == <<fx_pc, fx_kind, fx_n, fx_cached, cache_content, fx_body, fx_fixtures,
                 fx_ret, cache_file, fx_log, miss_result>>
fuzzerVars == <<fz_pc, seed, base_fixtures, rng, fuzz_inputs, test_inputs>>
cheatVars == <<ac_pc, submission_database, fingerprint, unvisited, matches,
               plagiarism_result, user_id, compared_keys>>
traceVars == <<tr_pc, tr_language, tr_total, tr_i, tr_events, tr_result, tr_ret>>
simVars == <<sm_pc, sm_fp1, sm_fp2, sm_hash, sm_token, sm_structural, sm_ret>>
libVars == <<fuzzerVars, cheatVars, traceVars, simVars>>
vars == <<credVars, rlimits, kernelVars, sandboxVars, pipeVars, calls, fixtureVars,
          fetched, input_files, libVars>>

(***************************************************************************)
(* Values                                                                  *)
(***************************************************************************)
Ok(v) == [ok |-> TRUE, value |-> v]
Err(e) == [ok |-> FALSE, err |-> e]
NoValue == [ok |-> FALSE, err |-> "unset"]

TraceEvent(type, gas, mem) == [event_type |-> type, gas_used |-> gas, memory_used |-> mem]

\* std::process::ExitStatus of a child: it exited with a code, or was killed
\* by a signal: [exited, code]
\* ExitStatus::success
StatusSuccess(st) == st.exited /\ st.code = 0
\* ExitStatus::code
StatusCode(st) == IF st.exited THEN st.code ELSE None

\* what a child does: how it ends and what it has written to its pipes by then
\* (ASCII bytes and 0xFF, which is in no valid UTF-8 text)
ChildRun(st, out, err) == [status |-> st, stdout |-> out, stderr |-> err]
ChildRuns ==
  { ChildRun([exited |-> TRUE, code |-> 0], <<72, 105>>, <<>>),
    ChildRun([exited |-> TRUE, code |-> 0], <<72, 255>>, <<>>),
    ChildRun([exited |-> TRUE, code |-> 0], <<108, 105, 110, 101, 32, 49>>, <<>>),
    ChildRun([exited |-> TRUE, code |-> 1], <<>>, <<69>>),
    ChildRun([exited |-> FALSE, code |-> 9], <<>>, <<>>) }
REPLACEMENT_CHARACTER == 65533
\* String::from_utf8_lossy on these bytes: a string is its sequence of code points
from_utf8_lossy(bytes) ==
  [i \in 1..Len(bytes) |-> IF bytes[i] < 128 THEN bytes[i] ELSE REPLACEMENT_CHARACTER]

NoChild == [state |-> "none", status |-> [exited |-> FALSE, code |-> 0],
            stdout |-> <<>>, stderr |-> <<>>, attached |-> FALSE, netns |-> "inherited"]

\* a name no live object of the set has (uuid::Uuid::new_v4)
FreshName(S) == CHOOSE n \in 1..(Cardinality(S) + 1) : n \notin S

CanFault == faults < MaxFaults

(***************************************************************************)
(* sandbox.rs: set_resource_limits.  setrlimit(resource, soft, hard) on    *)
(* the calling process: raising the hard limit needs CAP_SYS_RESOURCE.     *)
(***************************************************************************)
SetrlimitAllowed(cur, new, privileged) ==
  privileged \/ cur = RLIM_INFINITY \/ new <= cur

\* Duration::as_secs of a duration given in milliseconds
as_secs(ms) == ms \div 1000

RlimitRequests(cfg) ==
  << <<"cpu", as_secs(cfg.time_limit)>>, <<"as", cfg.memory_limit>>,
     <<"fsize", cfg.max_file_size>>, <<"nproc", cfg.max_processes>> >>

RECURSIVE ApplyRlimits(_, _, _, _)
ApplyRlimits(lim, wanted, i, privileged) ==
  IF i > Len(wanted) THEN [limits |-> lim, ok |-> TRUE]
  ELSE LET res == wanted[i][1]
           val == wanted[i][2]
       IN IF SetrlimitAllowed(lim[res], val, privileged)
          THEN ApplyRlimits([lim EXCEPT ![res] = val], wanted, i + 1, privileged)
          ELSE [limits |-> lim, ok |-> FALSE]

set_resource_limits(lim, cfg, privileged) ==
  ApplyRlimits(lim, RlimitRequests(cfg), 1, privileged)

(***************************************************************************)
(* sandbox.rs: execute_in_sandbox                                          *)
(***************************************************************************)
\* lines 63-80: the start event and the cgroup name
Exec_Start ==
  /\ xpc = "start"
  /\ trace_events' = <<TraceEvent("execution_start", GAS_START, 0)>>
  /\ cgroup' = FreshName(cgroups)
  /\ xpc' = "create_cgroup"
  /\ UNCHANGED <<config, temp_mount_point, child, execution_result, result, ret>>
  /\ UNCHANGED <<rlimits, kernelVars>>
  /\ UNCHANGED <<credVars, pipeVars, calls>>
  /\ UNCHANGED <<fixtureVars, fetched, input_files, libVars>>

\* the `?` of a setup step: the function returns the error at once
EarlyReturn(e) ==
  /\ ret' = Err(e)
  /\ xpc' = "returned"

\* line 83, create_cgroup_with_limits (178-213)
Exec_CreateCgroup ==
  /\ xpc = "create_cgroup"
  /\ \/ \* CgroupBuilder::build fails
        /\ CanFault
        /\ faults' = faults + 1
        /\ EarlyReturn("Failed to create cgroup")
        /\ UNCHANGED cgroups
     \/ \* the cgroup is built, setting a limit on it fails
        /\ CanFault
        /\ faults' = faults + 1
        /\ cgroups' = cgroups \cup {cgroup}
        /\ EarlyReturn("Failed to set cgroup limit")
     \/ /\ cgroups' = cgroups \cup {cgroup}
        /\ xpc' = "setup_volume"
        /\ UNCHANGED <<faults, ret>>
  /\ UNCHANGED <<config, trace_events, cgroup, temp_mount_point, child,
                 execution_result, result>>
  /\ UNCHANGED <<mounts, tmpdirs>>
  /\ UNCHANGED rlimits
  /\ UNCHANGED <<credVars, pipeVars, calls>>
  /\ UNCHANGED <<fixtureVars, fetched, input_files, libVars>>

\* line 86, setup_ephemeral_volume (219-237)
Exec_SetupVolume ==
  /\ xpc = "setup_volume"
  /\ LET mount_point == FreshName(tmpdirs) IN
     \/ \* create_dir fails
        /\ CanFault
        /\ faults' = faults + 1
        /\ EarlyReturn("Failed to create temp dir")
        /\ UNCHANGED <<tmpdirs, mounts, temp_mount_point>>
     \/ \* the directory is made, the mount command fails
        /\ CanFault
        /\ faults' = faults + 1
        /\ tmpdirs' = tmpdirs \cup {mount_point}
        /\ temp_mount_point' = mount_point
        /\ EarlyReturn("Mount command failed")
        /\ UNCHANGED mounts
     \/ /\ tmpdirs' = tmpdirs \cup {mount_point}
        /\ mounts' = mounts \cup {mount_point}
        /\ temp_mount_point' = mount_point
        /\ xpc' = "set_limits"
        /\ UNCHANGED <<faults, ret>>
  /\ UNCHANGED <<config, trace_events, cgroup, child, execution_result, result>>
  /\ UNCHANGED cgroups
  /\ UNCHANGED rlimits
  /\ UNCHANGED <<credVars, pipeVars, calls>>
  /\ UNCHANGED <<fixtureVars, fetched, input_files, libVars>>

\* line 89, set_resource_limits (239-269): on the worker process itself
Exec_SetLimits ==
  /\ xpc = "set_limits"
  /\ LET r == set_resource_limits(rlimits, config, uid = 0) IN
     /\ rlimits' = r.limits
     /\ IF r.ok
        THEN xpc' = "spawn" /\ UNCHANGED ret
        ELSE EarlyReturn("Failed to set limit")
  /\ UNCHANGED <<config, trace_events, cgroup, temp_mount_point, child,
                 execution_result, result>>
  /\ UNCHANGED kernelVars
  /\ UNCHANGED <<credVars, pipeVars, calls>>
  /\ UNCHANGED <<fixtureVars, fetched, input_files, libVars>>

\* lines 93-99: spawn inside the timeout
Exec_Spawn ==
  /\ xpc = "spawn"
  /\ \/ /\ CanFault
        /\ faults' = faults + 1
        /\ execution_result' = [kind |-> "inner_err", err |-> "Failed to spawn process"]
        /\ xpc' = "match"
        /\ UNCHANGED child
     \/ \* the child runs in the worker's own network namespace (lines 106-107)
        /\ child' = [NoChild EXCEPT !.state = "running"]
        /\ xpc' = "attach"
        /\ UNCHANGED <<faults, execution_result>>
  /\ UNCHANGED <<config, trace_events, cgroup, temp_mount_point, result, ret>>
  /\ UNCHANGED <<rlimits, cgroups, mounts, tmpdirs>>
  /\ UNCHANGED <<credVars, pipeVars, calls>>
  /\ UNCHANGED <<fixtureVars, fetched, input_files, libVars>>

\* lines 102-104, add_process_to_cgroup (215-217).  On failure the future
\* ends and the Child handle is dropped; nothing kills the process.
Exec_Attach ==
  /\ xpc = "attach"
  /\ \/ /\ CanFault
        /\ faults' = faults + 1
        /\ execution_result' = [kind |-> "inner_err", err |-> "Failed to add process to cgroup"]
        /\ xpc' = "match"
        /\ UNCHANGED child
     \/ /\ child' = [child EXCEPT !.attached = TRUE]
        /\ xpc' = "waiting"
        /\ UNCHANGED <<faults, execution_result>>
  /\ UNCHANGED <<config, trace_events, cgroup, temp_mount_point, result, ret>>
  /\ UNCHANGED <<rlimits, cgroups, mounts, tmpdirs>>
  /\ UNCHANGED <<credVars, pipeVars, calls>>
  /\ UNCHANGED <<fixtureVars, fetched, input_files, libVars>>

\* the child process ends by itself
Child_Exit ==
  /\ child.state = "running"
  /\ xpc \in {"attach", "waiting", "match", "delete_cgroup", "unmount", "returned"}
  /\ \E run \in ChildRuns :
       child' = [child EXCEPT !.state = "exited", !.status = run.status,
                              !.stdout = run.stdout, !.stderr = run.stderr]
  /\ UNCHANGED <<xpc, config, trace_events, cgroup, temp_mount_point,
                 execution_result, result, ret>>
  /\ UNCHANGED <<rlimits, kernelVars>>
  /\ UNCHANGED <<credVars, pipeVars, calls>>
  /\ UNCHANGED <<fixtureVars, fetched, input_files, libVars>>

\* lines 109-112: wait_with_output returns once the child has exited
Exec_WaitOutput ==
  /\ xpc = "waiting"
  /\ child.state = "exited"
  /\ execution_result' = [kind |-> "output", status |-> child.status,
                          stdout |-> child.stdout, stderr |-> child.stderr]
  /\ xpc' = "match"
  /\ UNCHANGED <<config, trace_events, cgroup, temp_mount_point, child, result, ret>>
  /\ UNCHANGED <<rlimits, kernelVars>>
  /\ UNCHANGED <<credVars, pipeVars, calls>>
  /\ UNCHANGED <<fixtureVars, fetched, input_files, libVars>>

\* line 110: wait_with_output fails
Exec_WaitFail ==
  /\ xpc = "waiting"
  /\ CanFault
  /\ faults' = faults + 1
  /\ execution_result' = [kind |-> "inner_err", err |-> "Failed to wait for process"]
  /\ xpc' = "match"
  /\ UNCHANGED <<config, trace_events, cgroup, temp_mount_point, child, result, ret>>
  /\ UNCHANGED <<rlimits, cgroups, mounts, tmpdirs>>
  /\ UNCHANGED <<credVars, pipeVars, calls>>
  /\ UNCHANGED <<fixtureVars, fetched, input_files, libVars>>

\* lines 92, 113: time_limit elapses while the inner future is pending.  The
\* future, and with it the Child handle, is dropped; nothing kills the process.
Exec_Timeout ==
  /\ xpc = "waiting"
  /\ child.state = "running"
  /\ CanFault
  /\ faults' = faults + 1
  /\ execution_result' = [kind |-> "elapsed"]
  /\ xpc' = "match"
  /\ UNCHANGED <<config, trace_events, cgroup, temp_mount_point, child, result, ret>>
  /\ UNCHANGED <<rlimits, cgroups, mounts, tmpdirs>>
  /\ UNCHANGED <<credVars, pipeVars, calls>>
  /\ UNCHANGED <<fixtureVars, fetched, input_files, libVars>>

\* MatchResult with the timeout arm returning a successful result
MatchResult_TimeoutAsSuccess(er, events, cfg) ==
  CASE er.kind = "output" ->
         Ok([success |-> StatusSuccess(er.status),
             exit_code |-> StatusCode(er.status),
             stdout |-> from_utf8_lossy(er.stdout),
             stderr |-> from_utf8_lossy(er.stderr),
             memory_used |-> cfg.memory_limit \div 2,
             gas_used |-> GAS_RESULT,
             trace_events |-> Append(events,
                TraceEvent("execution_complete", GAS_COMPLETE, cfg.memory_limit \div 2))])
    [] er.kind = "inner_err" -> Err(er.err)
    [] er.kind = "elapsed" ->
         Ok([success |-> TRUE, exit_code |-> 0, stdout |-> <<>>, stderr |-> <<>>,
             memory_used |-> 0, gas_used |-> 0,
             trace_events |-> Append(events, TraceEvent("execution_timeout", 0, 0))])

\* MatchResult with success taken from the wait having returned, not from the status
MatchResult_SuccessWhenOutput(er, events, cfg) ==
  CASE er.kind = "output" ->
         Ok([success |-> TRUE,
             exit_code |-> StatusCode(er.status),
             stdout |-> from_utf8_lossy(er.stdout),
             stderr |-> from_utf8_lossy(er.stderr),
             memory_used |-> cfg.memory_limit \div 2,
             gas_used |-> GAS_RESULT,
             trace_events |-> Append(events,
                TraceEvent("execution_complete", GAS_COMPLETE, cfg.memory_limit \div 2))])
    [] er.kind = "inner_err" -> Err(er.err)
    [] er.kind = "elapsed" -> Err("Execution timed out")

\* lines 117-160: the value of the match, and trace_events after it
MatchResult(er, events, cfg) ==
  CASE er.kind = "output" ->
         Ok([success |-> StatusSuccess(er.status),
             exit_code |-> StatusCode(er.status),
             stdout |-> from_utf8_lossy(er.stdout),
             stderr |-> from_utf8_lossy(er.stderr),
             memory_used |-> cfg.memory_limit \div 2,
             gas_used |-> GAS_RESULT,
             trace_events |-> Append(events,
                TraceEvent("execution_complete", GAS_COMPLETE, cfg.memory_limit \div 2))])
    [] er.kind = "inner_err" -> Err(er.err)
    [] er.kind = "elapsed" -> Err("Execution timed out")

MatchEvents(er, events) ==
  CASE er.kind = "output" -> <<>>   \* moved into the result
    [] er.kind = "inner_err" -> events
    [] er.kind = "elapsed" -> Append(events, TraceEvent("execution_timeout", 0, 0))

Exec_Match ==
  /\ xpc = "match"
  /\ result' = MatchResult(execution_result, trace_events, config)
  /\ trace_events' = MatchEvents(execution_result, trace_events)
  /\ xpc' = "delete_cgroup"
  /\ UNCHANGED <<config, cgroup, temp_mount_point, child, execution_result, ret>>
  /\ UNCHANGED <<rlimits, kernelVars>>
  /\ UNCHANGED <<credVars, pipeVars, calls>>
  /\ UNCHANGED <<fixtureVars, fetched, input_files, libVars>>

\* lines 163-165: cgroup.delete(); an error is only logged.  A cgroup that
\* still holds a running task cannot be removed.
CgroupBusy == child.state = "running" /\ child.attached

Exec_DeleteCgroup ==
  /\ xpc = "delete_cgroup"
  /\ \/ /\ ~CgroupBusy
        /\ cgroups' = cgroups \ {cgroup}
        /\ UNCHANGED faults
     \/ /\ CgroupBusy
        /\ UNCHANGED <<cgroups, faults>>
     \/ /\ ~CgroupBusy
        /\ CanFault
        /\ faults' = faults + 1
        /\ UNCHANGED cgroups
  /\ xpc' = "unmount"
  /\ UNCHANGED <<config, trace_events, cgroup, temp_mount_point, child,
                 execution_result, result, ret>>
  /\ UNCHANGED <<mounts, tmpdirs>>
  /\ UNCHANGED rlimits
  /\ UNCHANGED <<credVars, pipeVars, calls>>
  /\ UNCHANGED <<fixtureVars, fetched, input_files, libVars>>

\* lines 168-175: umount, remove_dir (errors only logged), then `result`
Exec_Unmount ==
  /\ xpc = "unmount"
  /\ \/ /\ mounts' = mounts \ {temp_mount_point}
        /\ tmpdirs' = tmpdirs \ {temp_mount_point}
        /\ UNCHANGED faults
     \/ \* umount fails, and remove_dir of a mount point fails with it
        /\ CanFault
        /\ faults' = faults + 1
        /\ UNCHANGED <<mounts, tmpdirs>>
  /\ ret' = result
  /\ xpc' = "returned"
  /\ UNCHANGED <<config, trace_events, cgroup, temp_mount_point, child,
                 execution_result, result>>
  /\ UNCHANGED cgroups
  /\ UNCHANGED rlimits
  /\ UNCHANGED <<credVars, pipeVars, calls>>
  /\ UNCHANGED <<fixtureVars, fetched, input_files, libVars>>

\* a caller starts a call
Call(stage, cfg) ==
  /\ xpc = "idle"
  /\ xpc' = "start"
  /\ config' = cfg
  /\ calls' = Append(calls, [stage |-> stage, outcome |-> "running"])
  /\ UNCHANGED <<trace_events, cgroup, temp_mount_point, child, execution_result,
                 result, ret>>

\* how a call ended, as its caller sees it
Outcome(r) == IF ~r.ok THEN "error" ELSE IF r.value.success THEN "success" ELSE "failure"

\* a caller takes the returned value; the locals of the call are gone
TakeReturn ==
  /\ xpc = "returned"
  /\ xpc' = "idle"
  /\ trace_events' = <<>>
  /\ cgroup' = 0
  /\ temp_mount_point' = 0
  /\ child' = NoChild
  /\ execution_result' = [kind |-> "none"]
  /\ result' = NoValue
  /\ ret' = NoValue
  /\ config' = DefaultConfig
  /\ calls' = [calls EXCEPT ![Len(calls)].outcome = Outcome(ret)]

(***************************************************************************)
(* sandbox.rs: drop_privileges, and worker.rs: main                        *)
(***************************************************************************)
\* lines 271-278: the credentials after the call, given what the kernel
\* answers to setgid and to setuid
drop_privileges(u, g, setgid_ok, setuid_ok) ==
  IF u = 0
  THEN IF ~setgid_ok THEN [uid |-> u, gid |-> g, ok |-> FALSE]
       ELSE IF ~setuid_ok THEN [uid |-> u, gid |-> NOBODY, ok |-> FALSE]
       ELSE [uid |-> NOBODY, gid |-> NOBODY, ok |-> TRUE]
  ELSE [uid |-> u, gid |-> g, ok |-> TRUE]

\* worker.rs 24-27: an error of drop_privileges is printed as a warning
Main_DropPrivileges ==
  /\ wpc = "boot"
  /\ \E setgid_ok, setuid_ok \in BOOLEAN :
       LET r == drop_privileges(uid, gid, setgid_ok, setuid_ok) IN
       /\ (uid = 0 /\ ~r.ok) => CanFault
       /\ (uid # 0) => (setgid_ok /\ setuid_ok)
       /\ (~setgid_ok) => setuid_ok
       /\ faults' = IF r.ok THEN faults ELSE faults + 1
       /\ uid' = r.uid
       /\ gid' = r.gid
  /\ wpc' = "privileges_handled"
  /\ UNCHANGED <<started_as_root, rlimits, cgroups, mounts, tmpdirs, sandboxVars, pipeVars, calls>>
  /\ UNCHANGED <<fixtureVars, fetched, input_files, libVars>>

\* worker.rs 29-52: the routes are built and the listener serves
Main_Serve ==
  /\ wpc = "privileges_handled"
  /\ wpc' = "serving"
  /\ UNCHANGED <<started_as_root, uid, gid, rlimits, kernelVars, sandboxVars, pipeVars, calls>>
  /\ UNCHANGED <<fixtureVars, fetched, input_files, libVars>>

(***************************************************************************)
(* worker.rs: handle_grade and grade_with_full_pipeline                    *)
(***************************************************************************)
Requests == {1}
Languages == {"rust", "solidity", "python"}
FixtureIds == {1}
FixtureTimeouts == {FIXTURE_DEFAULT_TIMEOUT}
Fixture == [id : FixtureIds, timeout : FixtureTimeouts]
FixtureLists == UNION {[1..n -> Fixture] : n \in 0..MaxFixtures}

NoJob == [language |-> "", challenge_abs |-> FALSE, enable_tracing |-> FALSE, time_limit |-> 0]
NoSuite == [i |-> 0, passed |-> 0, total |-> 0, gas_used |-> 0, trace_events |-> <<>>]
NoFuzz == [n_inputs |-> 0, inputs_tested |-> 0, crashes_found |-> <<>>, unique_paths |-> {},
           coverage_data |-> {}]
NoFuzzResult == [inputs_tested |-> 0, crashes_found |-> <<>>, unique_paths |-> 0,
                 coverage_score |-> Zero]
NoExecResult == [success |-> FALSE, gas_used |-> 0, trace_events |-> <<>>]
NoFetch == [public |-> "none", hidden |-> "none", campaign |-> "none"]

\* the frame of a pipeline step that makes no sandbox call
NoSandbox == UNCHANGED <<credVars, rlimits, cgroups, mounts, tmpdirs, sandboxVars, calls>>
\* the frame of a pipeline step that starts or ends a sandbox call
AroundSandbox == UNCHANGED <<credVars, rlimits, cgroups, mounts, tmpdirs>>

\* handle_grade is entered for a request; it waits for the state mutex (line 389)
HG_Arrive(r) ==
  /\ wpc = "serving"
  /\ reqs[r] = "new"
  /\ reqs' = [reqs EXCEPT ![r] = "waiting"]
  /\ UNCHANGED <<job, ppc, workspace_exists, public_fixtures, hidden_fixtures,
                 compile_result, suite, public_test_results, hidden_test_results,
                 fuzz, fuzz_result, response>>
  /\ UNCHANGED faults
  /\ NoSandbox
  /\ UNCHANGED <<fixtureVars, fetched, input_files, libVars>>

\* HG_Lock without the state mutex: the pipeline is entered as soon as the
\* request has arrived
HG_Lock_NoMutex(r) ==
  /\ reqs[r] = "waiting"
  /\ reqs' = [reqs EXCEPT ![r] = "running"]
  /\ \E l \in Languages, a \in BOOLEAN, t \in BOOLEAN :
       job' = [language |-> l, challenge_abs |-> a, enable_tracing |-> t,
               time_limit |-> DEFAULT_TIME_LIMIT]
  /\ ppc' = "workspace"
  /\ UNCHANGED <<workspace_exists, public_fixtures, hidden_fixtures,
                 compile_result, suite, public_test_results, hidden_test_results,
                 fuzz, fuzz_result, response>>
  /\ UNCHANGED faults
  /\ NoSandbox
  /\ UNCHANGED <<fixtureVars, fetched, input_files, libVars>>

\* lines 389-411: the mutex is taken (the guard lives to the end of the
\* function), the payload is read and the pipeline is entered
HG_Lock(r) ==
  /\ reqs[r] = "waiting"
  /\ \A q \in DOMAIN reqs : reqs[q] # "running"
  /\ reqs' = [reqs EXCEPT ![r] = "running"]
  /\ \E l \in Languages, a \in BOOLEAN, t \in BOOLEAN :
       job' = [language |-> l, challenge_abs |-> a, enable_tracing |-> t,
               time_limit |-> DEFAULT_TIME_LIMIT]
  /\ ppc' = "workspace"
  /\ UNCHANGED <<workspace_exists, public_fixtures, hidden_fixtures,
                 compile_result, suite, public_test_results, hidden_test_results,
                 fuzz, fuzz_result, response>>
  /\ UNCHANGED faults
  /\ NoSandbox
  /\ UNCHANGED <<fixtureVars, fetched, input_files, libVars>>

\* the pipeline returns Err(e)
Fail(e) ==
  /\ response' = Err(e)
  /\ ppc' = "done"

\* P_Workspace whose TempDir is never dropped: the directory stays
P_Workspace_TempDirKept ==
  /\ ppc = "workspace"
  /\ \/ /\ workspace_exists' = TRUE
        /\ ppc' = "fetch_public"
        /\ UNCHANGED <<faults, response>>
     \/ /\ ~job.challenge_abs
        /\ CanFault
        /\ faults' = faults + 1
        /\ Fail("Failed to create temp dir")
        /\ UNCHANGED workspace_exists
  /\ UNCHANGED <<reqs, job, public_fixtures, hidden_fixtures, compile_result, suite,
                 public_test_results, hidden_test_results, fuzz, fuzz_result>>
  /\ NoSandbox
  /\ UNCHANGED <<fixtureVars, fetched, input_files, libVars>>

\* lines 69-80: an absolute challenge_id names the workspace; otherwise a
\* TempDir is made and dropped at the end of its block, which removes it
P_Workspace ==
  /\ ppc = "workspace"
  /\ \/ /\ job.challenge_abs
        /\ workspace_exists' = TRUE
        /\ ppc' = "fetch_public"
        /\ UNCHANGED <<faults, response>>
     \/ /\ ~job.challenge_abs
        /\ workspace_exists' = FALSE
        /\ ppc' = "fetch_public"
        /\ UNCHANGED <<faults, response>>
     \/ /\ ~job.challenge_abs
        /\ CanFault
        /\ faults' = faults + 1
        /\ Fail("Failed to create temp dir")
        /\ UNCHANGED workspace_exists
  /\ UNCHANGED <<reqs, job, public_fixtures, hidden_fixtures, compile_result, suite,
                 public_test_results, hidden_test_results, fuzz, fuzz_result>>
  /\ NoSandbox
  /\ UNCHANGED <<fixtureVars, fetched, input_files, libVars>>

\* what fetch_challenge_fixtures and fetch_hidden_tests can return to the
\* pipeline (fixtures.rs 35-66, 68-88)
FetchResults(e) == {Ok(l) : l \in FixtureLists} \cup {Err(e)}
FetchStatus(r) == IF r.ok THEN "ok" ELSE "failed"

\* lines 82-87 with `?` in place of unwrap_or_else: a failed fetch is returned
P_FetchPublic_Propagate ==
  /\ ppc = "fetch_public"
  /\ \E r \in FetchResults("Failed to fetch fixtures") :
       /\ fetched' = [fetched EXCEPT !.public = FetchStatus(r)]
       /\ IF r.ok
          THEN public_fixtures' = r.value /\ ppc' = "prepare" /\ UNCHANGED response
          ELSE Fail(r.err) /\ UNCHANGED public_fixtures
  /\ UNCHANGED <<reqs, job, workspace_exists, hidden_fixtures, compile_result, suite,
                 public_test_results, hidden_test_results, fuzz, fuzz_result>>
  /\ UNCHANGED faults
  /\ NoSandbox
  /\ UNCHANGED <<fixtureVars, input_files, libVars>>

\* lines 82-87: a failed fetch gives the empty list
P_FetchPublic ==
  /\ ppc = "fetch_public"
  /\ \E r \in FetchResults("Failed to fetch fixtures") :
       /\ fetched' = [fetched EXCEPT !.public = FetchStatus(r)]
       /\ public_fixtures' = IF r.ok THEN r.value ELSE <<>>
  /\ ppc' = "prepare"
  /\ UNCHANGED <<reqs, job, workspace_exists, hidden_fixtures, compile_result, suite,
                 public_test_results, hidden_test_results, fuzz, fuzz_result, response>>
  /\ UNCHANGED faults
  /\ NoSandbox
  /\ UNCHANGED <<fixtureVars, input_files, libVars>>

\* lines 89-91, prepare_code (196-230): the files are written into the workspace
P_Prepare ==
  /\ ppc = "prepare"
  /\ IF workspace_exists
     THEN ppc' = "compile" /\ UNCHANGED response
     ELSE Fail("Failed to write code file")
  /\ UNCHANGED <<reqs, job, workspace_exists, public_fixtures, hidden_fixtures,
                 compile_result, suite, public_test_results, hidden_test_results,
                 fuzz, fuzz_result>>
  /\ UNCHANGED faults
  /\ NoSandbox
  /\ UNCHANGED <<fixtureVars, fetched, input_files, libVars>>

\* lines 93-95, compile_code (232-247)
P_Compile_Call ==
  /\ ppc = "compile"
  /\ Call("compile", CompileConfig)
  /\ ppc' = "compile_wait"
  /\ UNCHANGED <<reqs, job, workspace_exists, public_fixtures, hidden_fixtures,
                 compile_result, suite, public_test_results, hidden_test_results,
                 fuzz, fuzz_result, response>>
  /\ UNCHANGED faults
  /\ AroundSandbox
  /\ UNCHANGED <<fixtureVars, fetched, input_files, libVars>>

\* the JSON values of executionTrace: json!(null), an array (json! of a
\* Vec<TraceEvent>) and an object
TraceNull == [kind |-> "null"]
TraceArray(items) == [kind |-> "array", items |-> items]
TraceObject(fields) == [kind |-> "object", fields |-> fields]

\* lines 97-110: the report of a failed compilation
CompileFailureReport(cr, tracing) ==
  [success |-> FALSE, score |-> 0, passedTests |-> 0, totalTests |-> 0,
   gasUsed |-> cr.gas_used, stage |-> "compilation",
   executionTrace |-> IF tracing THEN TraceArray(cr.trace_events) ELSE TraceArray(<<>>)]

\* AfterCompile without the early return of lines 96-110
AfterCompile_NoShortCircuit(r, tracing) ==
  IF ~r.ok THEN [next |-> "done", response |-> r]
  ELSE [next |-> "public", response |-> NoValue]

\* what follows compile_code(..).await? at lines 95-110
AfterCompile(r, tracing) ==
  IF ~r.ok THEN [next |-> "done", response |-> r]
  ELSE IF ~r.value.success
       THEN [next |-> "done", response |-> Ok(CompileFailureReport(r.value, tracing))]
       ELSE [next |-> "public", response |-> NoValue]

P_Compile_Return ==
  /\ ppc = "compile_wait"
  /\ TakeReturn
  /\ LET a == AfterCompile(ret, job.enable_tracing) IN
     /\ ppc' = a.next
     /\ response' = a.response
     /\ IF a.next = "public"
        THEN /\ compile_result' = [success |-> ret.value.success,
                                   gas_used |-> ret.value.gas_used,
                                   trace_events |-> ret.value.trace_events]
             \* run_test_suite 307-308
             /\ suite' = [NoSuite EXCEPT !.i = 1, !.total = Len(public_fixtures)]
        ELSE UNCHANGED <<compile_result, suite>>
  /\ UNCHANGED <<reqs, job, workspace_exists, public_fixtures, hidden_fixtures,
                 public_test_results, hidden_test_results, fuzz, fuzz_result>>
  /\ UNCHANGED faults
  /\ AroundSandbox
  /\ UNCHANGED <<fixtureVars, fetched, input_files, libVars>>

(***************************************************************************)
(* worker.rs: run_test_suite (300-383), for the public and the hidden list *)
(***************************************************************************)
InPublic == ppc \in {"public", "public_wait"}
CurFixtures == IF InPublic THEN public_fixtures ELSE hidden_fixtures

\* P_Suite_Call that starts the execution and goes on without awaiting it
P_Suite_Call_NoAwait ==
  /\ ppc \in {"public", "hidden"}
  /\ suite.i <= Len(CurFixtures)
  /\ Call(IF InPublic THEN "public" ELSE "hidden",
          IF job.language = "solidity" THEN ForgeTestConfig
          ELSE TestConfig(CurFixtures[suite.i].timeout, job.time_limit))
  /\ suite' = [suite EXCEPT !.i = IF job.language = "solidity"
                                  THEN Len(CurFixtures) + 1 ELSE @ + 1]
  /\ UNCHANGED <<reqs, job, ppc, workspace_exists, public_fixtures, hidden_fixtures,
                 compile_result, public_test_results, hidden_test_results,
                 fuzz, fuzz_result, response>>
  /\ UNCHANGED faults
  /\ AroundSandbox
  /\ UNCHANGED <<fixtureVars, fetched, libVars>>
  /\ input_files' = IF job.language # "solidity" /\ xpc' = "start"
                    THEN input_files \cup {CurFixtures[suite.i].id}
                    ELSE input_files

\* lines 310-322 and 336-360: the next sandboxed execution of the suite
P_Suite_Call ==
  /\ ppc \in {"public", "hidden"}
  /\ suite.i <= Len(CurFixtures)
  /\ \/ \* one `forge test` for all the fixtures
        /\ job.language = "solidity"
        /\ Call(IF InPublic THEN "public" ELSE "hidden", ForgeTestConfig)
        /\ ppc' = IF InPublic THEN "public_wait" ELSE "hidden_wait"
        /\ UNCHANGED <<faults, response>>
     \/ /\ job.language # "solidity"
        /\ Call(IF InPublic THEN "public" ELSE "hidden",
                TestConfig(CurFixtures[suite.i].timeout, job.time_limit))
        /\ ppc' = IF InPublic THEN "public_wait" ELSE "hidden_wait"
        /\ UNCHANGED <<faults, response>>
     \/ \* writing the input file of the fixture fails (line 341)
        /\ job.language # "solidity"
        /\ CanFault
        /\ faults' = faults + 1
        /\ Fail("Failed to write test input")
        /\ UNCHANGED <<sandboxVars, calls>>
  /\ UNCHANGED <<reqs, job, workspace_exists, public_fixtures, hidden_fixtures,
                 compile_result, suite, public_test_results, hidden_test_results,
                 fuzz, fuzz_result>>
  /\ AroundSandbox
  /\ UNCHANGED <<fixtureVars, fetched, libVars>>
  /\ input_files' = IF job.language # "solidity" /\ xpc' = "start"
                    THEN input_files \cup {CurFixtures[suite.i].id}
                    ELSE input_files

\* lines 323-332 and 362-376: `result` after one execution returned Ok(er)
SuiteAfter(s, lang, fixtures, er) ==
  IF lang = "solidity"
  THEN [s EXCEPT !.passed = IF er.success THEN Len(fixtures) ELSE 0,
                 !.gas_used = er.gas_used,
                 !.trace_events = er.trace_events,
                 !.i = Len(fixtures) + 1]
  ELSE [s EXCEPT !.passed = IF er.success /\ er.exit_code = 0 THEN @ + 1 ELSE @,
                 !.gas_used = @ + er.gas_used,
                 !.trace_events = @ \o er.trace_events,
                 !.i = @ + 1]

\* P_Suite_Return that takes a sandbox error for a failed test and goes on
\* with the next fixture
P_Suite_Return_ErrorAsFailure ==
  /\ ppc \in {"public_wait", "hidden_wait"}
  /\ TakeReturn
  /\ suite' = IF ret.ok THEN SuiteAfter(suite, job.language, CurFixtures, ret.value)
              ELSE [suite EXCEPT !.i = @ + 1]
  /\ ppc' = IF InPublic THEN "public" ELSE "hidden"
  /\ UNCHANGED response
  /\ UNCHANGED <<reqs, job, workspace_exists, public_fixtures, hidden_fixtures,
                 compile_result, public_test_results, hidden_test_results,
                 fuzz, fuzz_result>>
  /\ UNCHANGED faults
  /\ AroundSandbox
  /\ UNCHANGED <<fixtureVars, fetched, libVars>>
  /\ input_files' = IF job.language # "solidity"
                    THEN input_files \ {CurFixtures[suite.i].id}
                    ELSE input_files

\* lines 322 and 360: execute_in_sandbox(..).await? inside run_test_suite, and
\* the `?` on run_test_suite at lines 114 and 123
P_Suite_Return ==
  /\ ppc \in {"public_wait", "hidden_wait"}
  /\ TakeReturn
  /\ IF ret.ok
     THEN /\ suite' = SuiteAfter(suite, job.language, CurFixtures, ret.value)
          /\ ppc' = IF InPublic THEN "public" ELSE "hidden"
          /\ UNCHANGED response
     ELSE /\ Fail(ret.err)
          /\ UNCHANGED suite
  /\ UNCHANGED <<reqs, job, workspace_exists, public_fixtures, hidden_fixtures,
                 compile_result, public_test_results, hidden_test_results,
                 fuzz, fuzz_result>>
  /\ UNCHANGED faults
  /\ AroundSandbox
  /\ UNCHANGED <<fixtureVars, fetched, libVars>>
  /\ input_files' = IF job.language # "solidity" /\ ret.ok
                    THEN input_files \ {CurFixtures[suite.i].id}
                    ELSE input_files

SuiteResult(s) == [passed |-> s.passed, total |-> s.total, gas_used |-> s.gas_used,
                   trace_events |-> s.trace_events]

\* lines 332, 382: run_test_suite returns Ok(result)
P_Suite_Done ==
  /\ ppc \in {"public", "hidden"}
  /\ suite.i > Len(CurFixtures)
  /\ IF InPublic
     THEN /\ public_test_results' = SuiteResult(suite)
          /\ ppc' = "fetch_hidden"
          /\ UNCHANGED hidden_test_results
     ELSE /\ hidden_test_results' = SuiteResult(suite)
          /\ ppc' = "fuzz"
          /\ UNCHANGED public_test_results
  /\ suite' = NoSuite
  /\ UNCHANGED <<reqs, job, workspace_exists, public_fixtures, hidden_fixtures,
                 compile_result, fuzz, fuzz_result, response>>
  /\ UNCHANGED faults
  /\ NoSandbox
  /\ UNCHANGED <<fixtureVars, fetched, input_files, libVars>>

\* lines 116-123: a failed fetch gives the empty list
P_FetchHidden ==
  /\ ppc = "fetch_hidden"
  /\ \E r \in FetchResults("Failed to fetch hidden tests") :
       LET fixtures == IF r.ok THEN r.value ELSE <<>> IN
       /\ fetched' = [fetched EXCEPT !.hidden = FetchStatus(r)]
       /\ hidden_fixtures' = fixtures
       /\ suite' = [NoSuite EXCEPT !.i = 1, !.total = Len(fixtures)]
  /\ ppc' = "hidden"
  /\ UNCHANGED <<reqs, job, workspace_exists, public_fixtures, compile_result,
                 public_test_results, hidden_test_results, fuzz, fuzz_result, response>>
  /\ UNCHANGED faults
  /\ NoSandbox
  /\ UNCHANGED <<fixtureVars, input_files, libVars>>

(***************************************************************************)
(* fuzzer.rs: Fuzzer::run_fuzz_campaign (52-164)                           *)
(***************************************************************************)
\* lines 67-84: the number of inputs that are tested
NumTestInputs(n_fixtures) ==
  Min(max_iterations, NumVariations * n_fixtures + NumRandomInputs)

\* str::contains
Contains(s, pat) ==
  \E k \in 0..(Len(s) - Len(pat)) : SubSeq(s, k + 1, k + Len(pat)) = pat

PANIC == <<112, 97, 110, 105, 99>>
SEGMENTATION_FAULT == <<115, 101, 103, 109, 101, 110, 116, 97, 116, 105, 111, 110,
                        32, 102, 97, 117, 108, 116>>
OVERFLOW == <<111, 118, 101, 114, 102, 108, 111, 119>>
NULL_POINTER == <<110, 117, 108, 108, 32, 112, 111, 105, 110, 116, 101, 114>>
ASSERTION_FAILED == <<97, 115, 115, 101, 114, 116, 105, 111, 110, 32, 102, 97, 105,
                      108, 101, 100>>
UNKNOWN_CRASH == <<85, 110, 107, 110, 111, 119, 110, 32, 99, 114, 97, 115, 104>>

\* lines 276-307: analyze_crash
analyze_crash(er) ==
  LET error_message == IF er.stderr # <<>> THEN er.stderr
                       ELSE IF er.stdout # <<>> THEN er.stdout
                       ELSE UNKNOWN_CRASH
      severity == IF Contains(error_message, PANIC)
                     \/ Contains(error_message, SEGMENTATION_FAULT) THEN "Critical"
                  ELSE IF Contains(error_message, OVERFLOW)
                          \/ Contains(error_message, NULL_POINTER) THEN "High"
                  ELSE IF Contains(error_message, ASSERTION_FAILED) THEN "Medium"
                  ELSE "Low"
  IN [severity |-> severity, gas_used |-> er.gas_used, sandbox_error |-> FALSE]

\* lines 248-254: what calculate_path_hash digests (the digest is taken to
\* be injective); the exit code stands for its four little-endian bytes
calculate_path_hash(er) ==
  er.stdout \o er.stderr \o << IF er.exit_code = None THEN 0 ELSE er.exit_code >>

BRANCH == <<98, 114, 97, 110, 99, 104>>
LINE == <<108, 105, 110, 101>>
FUNCTION == <<102, 117, 110, 99, 116, 105, 111, 110>>

\* str::lines: the text between the line feeds (no empty last line)
RECURSIVE lines(_, _)
lines(s, cur) ==
  IF s = <<>> THEN (IF cur = <<>> THEN {} ELSE {cur})
  ELSE IF Head(s) = 10 THEN {cur} \cup lines(Tail(s), <<>>)
  ELSE lines(Tail(s), Append(cur, Head(s)))

\* lines 258-268: the lines of stdout followed by stderr that name a branch,
\* a line or a function join the coverage data
update_coverage(er, coverage_data) ==
  coverage_data \cup
    {line \in lines(er.stdout \o er.stderr, <<>>) :
       Contains(line, BRANCH) \/ Contains(line, LINE) \/ Contains(line, FUNCTION)}

\* lines 270-274: coverage_data.len() as f64 / 1000.0, at most 1.0
calculate_coverage_score(coverage_data) ==
  RMin(Rat(Cardinality(coverage_data), COVERAGE_POINTS), One)

\* FuzzAfter that records nothing for an execution that returned Err
FuzzAfter_ErrorDropped(f, r) ==
  IF r.ok
  THEN [f EXCEPT !.unique_paths = @ \cup {calculate_path_hash(r.value)},
                 !.coverage_data = update_coverage(r.value, @),
                 !.crashes_found =
                    IF ~r.value.success /\ r.value.exit_code # 0
                    THEN Append(@, analyze_crash(r.value)) ELSE @]
  ELSE f

\* lines 119-148: the campaign's locals after one execution returned r
FuzzAfter(f, r) ==
  IF r.ok
  THEN [f EXCEPT !.unique_paths = @ \cup {calculate_path_hash(r.value)},
                 !.coverage_data = update_coverage(r.value, @),
                 !.crashes_found =
                    IF ~r.value.success /\ r.value.exit_code # 0
                    THEN Append(@, analyze_crash(r.value)) ELSE @]
  ELSE [f EXCEPT !.crashes_found =
                    Append(@, [severity |-> "Medium", gas_used |-> 0,
                               sandbox_error |-> TRUE])]

\* P_Fuzz_Start without the take(max_iterations) of line 84
P_Fuzz_Start_NoLimit ==
  /\ ppc = "fuzz"
  /\ fuzz' = [NoFuzz EXCEPT !.n_inputs = NumVariations * Len(public_fixtures)
                                         + NumRandomInputs]
  /\ ppc' = "fuzz_loop"
  /\ UNCHANGED <<reqs, job, workspace_exists, public_fixtures, hidden_fixtures,
                 compile_result, suite, public_test_results, hidden_test_results,
                 fuzz_result, response>>
  /\ UNCHANGED faults
  /\ NoSandbox
  /\ UNCHANGED <<fixtureVars, fetched, input_files, libVars>>

\* worker.rs 125-134, fuzzer.rs 59-84
P_Fuzz_Start ==
  /\ ppc = "fuzz"
  /\ fuzz' = [NoFuzz EXCEPT !.n_inputs = NumTestInputs(Len(public_fixtures))]
  /\ ppc' = "fuzz_loop"
  /\ UNCHANGED <<reqs, job, workspace_exists, public_fixtures, hidden_fixtures,
                 compile_result, suite, public_test_results, hidden_test_results,
                 fuzz_result, response>>
  /\ UNCHANGED faults
  /\ NoSandbox
  /\ UNCHANGED <<fixtureVars, fetched, input_files, libVars>>

\* fuzzer.rs 86-117: the next input is written and executed.  A failed
\* write ends the campaign with Err, which worker.rs 136-142 replaces by the
\* empty FuzzResult.
P_Fuzz_Call ==
  /\ ppc = "fuzz_loop"
  /\ fuzz.inputs_tested < fuzz.n_inputs
  /\ \/ /\ fuzz' = [fuzz EXCEPT !.inputs_tested = @ + 1]
        /\ Call("fuzz", FuzzConfig)
        /\ ppc' = "fuzz_wait"
        /\ UNCHANGED <<faults, fuzz_result>>
     \/ /\ CanFault
        /\ faults' = faults + 1
        /\ fuzz' = NoFuzz
        /\ fuzz_result' = NoFuzzResult
        /\ ppc' = "aggregate"
        /\ UNCHANGED <<sandboxVars, calls>>
  /\ fetched' = [fetched EXCEPT !.campaign = IF ppc' = "aggregate" THEN "failed" ELSE @]
  /\ UNCHANGED <<reqs, job, workspace_exists, public_fixtures, hidden_fixtures,
                 compile_result, suite, public_test_results, hidden_test_results,
                 response>>
  /\ AroundSandbox
  /\ UNCHANGED <<fixtureVars, input_files, libVars>>

\* fuzzer.rs 119-151
P_Fuzz_Return ==
  /\ ppc = "fuzz_wait"
  /\ TakeReturn
  /\ fuzz' = FuzzAfter(fuzz, ret)
  /\ ppc' = "fuzz_loop"
  /\ UNCHANGED <<reqs, job, workspace_exists, public_fixtures, hidden_fixtures,
                 compile_result, suite, public_test_results, hidden_test_results,
                 fuzz_result, response>>
  /\ UNCHANGED faults
  /\ AroundSandbox
  /\ UNCHANGED <<fixtureVars, fetched, input_files, libVars>>

\* fuzzer.rs 154-163
P_Fuzz_Done ==
  /\ ppc = "fuzz_loop"
  /\ fuzz.inputs_tested = fuzz.n_inputs
  /\ fuzz_result' = [inputs_tested |-> fuzz.inputs_tested,
                     crashes_found |-> fuzz.crashes_found,
                     unique_paths |-> Cardinality(fuzz.unique_paths),
                     coverage_score |-> calculate_coverage_score(fuzz.coverage_data)]
  /\ fetched' = [fetched EXCEPT !.campaign = "ok"]
  /\ fuzz' = NoFuzz
  /\ ppc' = "aggregate"
  /\ UNCHANGED <<reqs, job, workspace_exists, public_fixtures, hidden_fixtures,
                 compile_result, suite, public_test_results, hidden_test_results,
                 response>>
  /\ UNCHANGED faults
  /\ NoSandbox
  /\ UNCHANGED <<fixtureVars, input_files, libVars>>

(***************************************************************************)
(* worker.rs 144-193: the score and the report                             *)
(***************************************************************************)
\* usize::saturating_sub
saturating_sub(a, b) == IF a >= b THEN a - b ELSE 0

\* BaseScore that takes an empty fixture set as fully passed
BaseScore_FullWhenEmpty(passed_tests, total_tests) ==
  IF total_tests > 0 THEN (passed_tests * 100) \div total_tests ELSE 100

\* line 147
BaseScore(passed_tests, total_tests) ==
  IF total_tests > 0 THEN (passed_tests * 100) \div total_tests ELSE 0

\* FinalScore with a plain subtraction
FinalScore_PlainSub(score, n_crashes) == score - n_crashes * CRASH_PENALTY

\* lines 150-151
FinalScore(score, n_crashes) == saturating_sub(score, n_crashes * CRASH_PENALTY)

\* line 174
Passing(final_score) == final_score >= PASS_THRESHOLD

FullReport(pub, hid, cr, pr, hr, fr, tracing) ==
  LET total_tests == Len(pub) + Len(hid)
      passed_tests == pr.passed + hr.passed
      final_score == FinalScore(BaseScore(passed_tests, total_tests), Len(fr.crashes_found))
  IN [success |-> Passing(final_score), score |-> final_score,
      passedTests |-> passed_tests, totalTests |-> total_tests,
      gasUsed |-> cr.gas_used + pr.gas_used + hr.gas_used,
      stage |-> "none",
      executionTrace |->
        IF tracing
        THEN TraceObject([compilation |-> cr.trace_events,
                         public_tests |-> pr.trace_events,
                         hidden_tests |-> hr.trace_events,
                         fuzzing |-> [inputs_tested |-> fr.inputs_tested,
                                      crashes_found |-> Len(fr.crashes_found),
                                      unique_paths |-> fr.unique_paths,
                                      coverage_score |-> fr.coverage_score]])
        ELSE TraceNull,
      fuzzResult |-> [inputsTested |-> fr.inputs_tested,
                      crashesFound |-> Len(fr.crashes_found),
                      uniquePaths |-> fr.unique_paths,
                      coverageScore |-> fr.coverage_score]]

P_Aggregate ==
  /\ ppc = "aggregate"
  /\ response' = Ok(FullReport(public_fixtures, hidden_fixtures, compile_result,
                               public_test_results, hidden_test_results, fuzz_result,
                               job.enable_tracing))
  /\ ppc' = "done"
  /\ UNCHANGED <<reqs, job, workspace_exists, public_fixtures, hidden_fixtures,
                 compile_result, suite, public_test_results, hidden_test_results,
                 fuzz, fuzz_result>>
  /\ UNCHANGED faults
  /\ NoSandbox
  /\ UNCHANGED <<fixtureVars, fetched, input_files, libVars>>

\* worker.rs 419-425: the reply is sent; the mutex guard and the locals of the
\* invocation are dropped
HG_Reply(r) ==
  /\ reqs[r] = "running"
  /\ ppc = "done"
  /\ reqs' = [reqs EXCEPT ![r] = "done"]
  /\ job' = NoJob
  /\ ppc' = "idle"
  /\ workspace_exists' = FALSE
  /\ public_fixtures' = <<>>
  /\ hidden_fixtures' = <<>>
  /\ compile_result' = NoExecResult
  /\ suite' = NoSuite
  /\ public_test_results' = SuiteResult(NoSuite)
  /\ hidden_test_results' = SuiteResult(NoSuite)
  /\ fuzz' = NoFuzz
  /\ fuzz_result' = NoFuzzResult
  /\ response' = NoValue
  /\ calls' = <<>>
  /\ UNCHANGED faults
  /\ UNCHANGED <<credVars, rlimits, cgroups, mounts, tmpdirs, sandboxVars>>
  /\ UNCHANGED <<fixtureVars, libVars>>
  /\ fetched' = NoFetch
  /\ input_files' = {}

(***************************************************************************)
(* fixtures.rs: FixtureManager over its cache directory and the remote     *)
(* fixture service, for one challenge id                                   *)
(***************************************************************************)
\* number of fetches the callers make in one behaviour
MaxFetches == 3

\* the values a fixture object of a JSON document can have for "id" (strings)
\* and for "timeout" (unsigned integers)
JsonIds == {"f1", ""}
JsonTimeouts == {0, 5}
\* a JSON value that is null, a boolean, an integer or a string
JNull == [kind |-> "null", s |-> "", n |-> 0, b |-> FALSE]
JBool(b) == [kind |-> "bool", s |-> "", n |-> 0, b |-> b]
JNum(n) == [kind |-> "number", s |-> "", n |-> n, b |-> FALSE]
JStr(s) == [kind |-> "string", s |-> s, n |-> 0, b |-> FALSE]
\* Value::as_str, as_bool, as_u64 of the value under a key, with the
\* unwrap_or of the caller: the default when the key is absent or holds a
\* value of another type
HasStr(data, key) == key \in DOMAIN data /\ data[key].kind = "string"
HasBool(data, key) == key \in DOMAIN data /\ data[key].kind = "bool"
HasU64(data, key) == key \in DOMAIN data /\ data[key].kind = "number" /\ data[key].n >= 0
StrOr(data, key, default) == IF HasStr(data, key) THEN data[key].s ELSE default
BoolOr(data, key, default) == IF HasBool(data, key) THEN data[key].b ELSE default
U64Or(data, key, default) == IF HasU64(data, key) THEN data[key].n ELSE default
ValueOr(data, key, default) == IF key \in DOMAIN data THEN data[key] ELSE default

\* a JSON object is a function from the keys it has to their values
JsonObjects ==
  {[id |-> JStr(i), timeout |-> JNum(t)] : i \in JsonIds, t \in JsonTimeouts}
    \cup {[id |-> JStr(i)] : i \in JsonIds}
    \cup {[timeout |-> JNum(t)] : t \in JsonTimeouts}
\* a JSON document: an array of objects, or a value that is no array
JsonArray(items) == [kind |-> "array", items |-> items]
JsonNoArray == [kind |-> "object", items |-> <<>>]
JsonValues ==
  {JsonArray(items) : items \in UNION {[1..n -> JsonObjects] : n \in 0..MaxFixtures}}
    \cup {JsonNoArray}

\* what the remote service answers to a GET: no connection, a status that is
\* no success, a body that is no JSON, or a JSON body
NoBody == [kind |-> "none", items |-> <<>>]
HttpResponse(status, body) == [status |-> status, body |-> body]
HttpResponses ==
  {HttpResponse(s, NoBody) : s \in {"unreachable", "http_error", "not_json"}}
    \cup {HttpResponse("ok", v) : v \in JsonValues}

\* lines 105-159: id must be a string that is there; timeout has a default
DEFAULT_GAS_LIMIT == 1000000
parse_single_fixture(data) ==
  IF ~HasStr(data, "id") THEN Err("Fixture missing id")
  ELSE Ok([id |-> data["id"].s,
           name |-> StrOr(data, "name", "Unnamed test"),
           description |-> StrOr(data, "description", ""),
           input |-> ValueOr(data, "input", JNull),
           expected_output |-> ValueOr(data, "expected_output", JNull),
           hidden |-> BoolOr(data, "hidden", FALSE),
           timeout |-> U64Or(data, "timeout", FIXTURE_DEFAULT_TIMEOUT),
           gas_limit |-> U64Or(data, "gas_limit", DEFAULT_GAS_LIMIT)])

\* parse_fixtures that leaves out the elements it cannot parse
ParsesOk(data) == parse_single_fixture(data).ok
parse_fixtures_SkipBad(data) ==
  IF data.kind # "array" THEN Err("Fixtures data is not an array")
  ELSE LET good == SelectSeq(data.items, ParsesOk)
       IN Ok([i \in DOMAIN good |-> parse_single_fixture(good[i]).value])

\* lines 90-103
parse_fixtures(data) ==
  IF data.kind # "array" THEN Err("Fixtures data is not an array")
  ELSE IF \E i \in DOMAIN data.items : ~parse_single_fixture(data.items[i]).ok
       THEN Err("Fixture missing id")
       ELSE Ok([i \in DOMAIN data.items |-> parse_single_fixture(data.items[i]).value])

\* the document of cache_fixtures with the gas limit under another key
fixtures_json_GasLimitKey(fixtures) ==
  JsonArray([i \in DOMAIN fixtures |->
               [id |-> JStr(fixtures[i].id),
                name |-> JStr(fixtures[i].name),
                description |-> JStr(fixtures[i].description),
                input |-> fixtures[i].input,
                expected_output |-> fixtures[i].expected_output,
                hidden |-> JBool(fixtures[i].hidden),
                timeout |-> JNum(fixtures[i].timeout),
                gasLimit |-> JNum(fixtures[i].gas_limit)]])

\* lines 186-198: the JSON document cache_fixtures builds
fixtures_json(fixtures) ==
  JsonArray([i \in DOMAIN fixtures |->
               [id |-> JStr(fixtures[i].id),
                name |-> JStr(fixtures[i].name),
                description |-> JStr(fixtures[i].description),
                input |-> fixtures[i].input,
                expected_output |-> fixtures[i].expected_output,
                hidden |-> JBool(fixtures[i].hidden),
                timeout |-> JNum(fixtures[i].timeout),
                gas_limit |-> JNum(fixtures[i].gas_limit)]])

\* the text of a file: all of the serialization of a value, or a proper
\* prefix of it (which never is a JSON document), or no text that was read
FileText(written, value) == [written |-> written, value |-> value]
NoText == FileText("none", NoBody)
\* serde_json::to_string_pretty and serde_json::from_str
to_string_pretty(value) == FileText("all", value)
from_str(text) ==
  IF text.written = "all" /\ text.value.kind \in {"array", "object"}
  THEN Ok(text.value) ELSE Err("Failed to parse cache")

\* the cache file fixtures_<id>.json; origin records who wrote its text
CacheFile(readable, text, origin) ==
  [exists |-> TRUE, readable |-> readable, text |-> text, origin |-> origin]
NoFile == [exists |-> FALSE, readable |-> FALSE, text |-> NoText, origin |-> "none"]

\* lines 161-176
get_cached_fixtures_AlwaysMiss(file) == Err("Cache miss")

get_cached_fixtures(file) ==
  IF ~file.exists THEN Err("Cache miss")
  ELSE IF ~file.readable THEN Err("Failed to read cache")
  ELSE IF ~from_str(file.text).ok THEN Err("Failed to parse cache")
  ELSE parse_fixtures(from_str(file.text).value)

\* lines 40-42: `if let Ok(cached)` returns a hit, anything else goes on
AfterLookup(cached) ==
  IF cached.ok THEN [next |-> "done", ret |-> cached]
  ELSE [next |-> "get", ret |-> NoValue]

\* the frame of a step of the fixture manager
NoWorker == UNCHANGED <<credVars, rlimits, cgroups, mounts, tmpdirs, sandboxVars,
                        pipeVars, calls, fetched, input_files, libVars>>

\* a caller enters fetch_challenge_fixtures (lines 35-39) or
\* fetch_hidden_tests (lines 68-69)
FM_Start(kind) ==
  /\ fx_pc \in {"idle", "done"}
  /\ fx_n < MaxFetches
  /\ fx_n' = fx_n + 1
  /\ fx_kind' = kind
  /\ fx_pc' = IF kind = "public" THEN "lookup" ELSE "get"
  /\ fx_log' = <<>>
  /\ fx_cached' = NoValue
  /\ cache_content' = NoText
  /\ fx_body' = NoBody
  /\ fx_fixtures' = NoValue
  /\ fx_ret' = NoValue
  /\ UNCHANGED <<cache_file, miss_result, faults>>
  /\ NoWorker

\* lines 40-42 and 161-176
FM_CacheLookup ==
  /\ fx_pc = "lookup"
  /\ fx_cached' = get_cached_fixtures(cache_file)
  /\ cache_content' = IF cache_file.exists /\ cache_file.readable
                      THEN cache_file.text ELSE NoText
  /\ fx_log' = fx_log \o (IF cache_file.exists THEN <<"cache_exists", "cache_read">>
                          ELSE <<"cache_exists">>)
  /\ fx_pc' = AfterLookup(fx_cached').next
  /\ fx_ret' = AfterLookup(fx_cached').ret
  /\ UNCHANGED <<fx_kind, fx_n, fx_body, fx_fixtures, cache_file, miss_result, faults>>
  /\ NoWorker

\* lines 45-58 and 72-85: the GET, the status check and the JSON body
FM_Get ==
  /\ fx_pc = "get"
  /\ fx_log' = Append(fx_log, IF fx_kind = "public" THEN "get_public" ELSE "get_hidden")
  /\ \E resp \in HttpResponses :
       IF resp.status = "ok"
       THEN /\ fx_body' = resp.body
            /\ fx_pc' = "parse"
            /\ UNCHANGED fx_ret
       ELSE /\ fx_ret' = Err(CASE resp.status = "unreachable" -> "Failed to fetch"
                               [] resp.status = "http_error" -> "Failed to fetch: HTTP"
                               [] OTHER -> "Failed to parse JSON")
            /\ fx_pc' = "done"
            /\ UNCHANGED fx_body
  /\ UNCHANGED <<fx_kind, fx_n, fx_cached, cache_content, fx_fixtures, cache_file,
                 miss_result, faults>>
  /\ NoWorker

\* FM_Parse that sends the hidden fixtures to the cache as well
FM_Parse_CacheHidden ==
  /\ fx_pc = "parse"
  /\ fx_fixtures' = parse_fixtures(fx_body)
  /\ IF fx_fixtures'.ok
     THEN fx_pc' = "cache_create" /\ UNCHANGED fx_ret
     ELSE fx_pc' = "done" /\ fx_ret' = fx_fixtures'
  /\ UNCHANGED <<fx_kind, fx_n, fx_log, fx_cached, cache_content, fx_body, cache_file,
                 miss_result, faults>>
  /\ NoWorker

\* lines 60 and 87: parse_fixtures; fetch_hidden_tests returns what it gives
FM_Parse ==
  /\ fx_pc = "parse"
  /\ fx_fixtures' = parse_fixtures(fx_body)
  /\ IF fx_fixtures'.ok /\ fx_kind = "public"
     THEN fx_pc' = "cache_create" /\ UNCHANGED fx_ret
     ELSE fx_pc' = "done" /\ fx_ret' = fx_fixtures'
  /\ UNCHANGED <<fx_kind, fx_n, fx_log, fx_cached, cache_content, fx_body, cache_file,
                 miss_result, faults>>
  /\ NoWorker

\* lines 178-205, first half: the directory is made, the text is built and
\* the file is created or truncated at its final path
FM_CacheCreate ==
  /\ fx_pc = "cache_create"
  /\ fx_log' = Append(fx_log, "cache_write")
  /\ \/ /\ cache_file' = CacheFile(TRUE, FileText("part", fixtures_json(fx_fixtures.value)),
                                   fx_kind)
        /\ miss_result' = [valid |-> FALSE, fixtures |-> <<>>]
        /\ fx_pc' = "cache_write"
        /\ UNCHANGED <<fx_ret, faults>>
     \/ /\ CanFault
        /\ faults' = faults + 1
        /\ fx_ret' = Err("Failed to write cache")
        /\ fx_pc' = "done"
        /\ UNCHANGED <<cache_file, miss_result>>
  /\ UNCHANGED <<fx_kind, fx_n, fx_cached, cache_content, fx_body, fx_fixtures>>
  /\ NoWorker

\* lines 203-207 and 63-65: the text is written; the fetch returns the
\* fixtures, or the error of the write
FM_CacheWrite ==
  /\ fx_pc = "cache_write"
  /\ \/ /\ IF cache_file.exists /\ cache_file.text.written = "part"
           THEN /\ cache_file' = [cache_file EXCEPT
                     !.text = to_string_pretty(fixtures_json(fx_fixtures.value))]
                /\ miss_result' = [valid |-> cache_file.readable,
                                   fixtures |-> IF cache_file.readable
                                                THEN fx_fixtures.value ELSE <<>>]
           \* the path was unlinked or replaced since the file was opened:
           \* the text goes to the file that no longer has the name
           ELSE UNCHANGED <<cache_file, miss_result>>
        /\ fx_ret' = Ok(fx_fixtures.value)
        /\ UNCHANGED faults
     \/ /\ CanFault
        /\ faults' = faults + 1
        /\ fx_ret' = Err("Failed to write cache")
        /\ UNCHANGED <<cache_file, miss_result>>
  /\ fx_pc' = "done"
  /\ UNCHANGED <<fx_kind, fx_n, fx_log, fx_cached, cache_content, fx_body, fx_fixtures>>
  /\ NoWorker

\* what the cache file can become without the fixture manager: removed, made
\* unreadable, or overwritten with text that is no fixture array
DamagedFiles(file) ==
  {NoFile,
   CacheFile(TRUE, to_string_pretty([kind |-> "garbage", items |-> <<>>]), "other"),
   CacheFile(TRUE, to_string_pretty(JsonNoArray), "other"),
   CacheFile(TRUE, to_string_pretty(JsonArray(<<[timeout |-> JNum(5)]>>)), "other")}
    \cup (IF file.exists THEN {[file EXCEPT !.readable = FALSE]} ELSE {})

Env_DamageCache ==
  /\ CanFault
  /\ faults' = faults + 1
  /\ \E f \in DamagedFiles(cache_file) :
       /\ f # cache_file
       /\ cache_file' = f
  /\ miss_result' = [valid |-> FALSE, fixtures |-> <<>>]
  /\ UNCHANGED <<fx_pc, fx_kind, fx_n, fx_log, fx_cached, cache_content, fx_body,
                 fx_fixtures, fx_ret>>
  /\ NoWorker

FixtureInitWith(file) ==
  /\ fx_pc = "idle"
  /\ fx_kind = "none"
  /\ fx_n = 0
  /\ fx_log = <<>>
  /\ fx_cached = NoValue
  /\ cache_content = NoText
  /\ fx_body = NoBody
  /\ fx_fixtures = NoValue
  /\ fx_ret = NoValue
  /\ cache_file = file
  /\ miss_result = [valid |-> FALSE, fixtures |-> <<>>]

FixtureInit == FixtureInitWith(NoFile)

\* cache_dir outlives the process (lines 28, 162): at the first fetch the
\* file of the challenge is absent, or is one that an earlier run or another
\* program left there and that is no fixture array
LeftoverFiles ==
  {NoFile,
   CacheFile(TRUE, to_string_pretty([kind |-> "garbage", items |-> <<>>]), "other")}
FixtureStart == \E file \in LeftoverFiles : FixtureInitWith(file)

FixtureNext ==
  \/ \E kind \in {"public", "hidden"} : FM_Start(kind)
  \/ FM_CacheLookup
  \/ FM_Get
  \/ FM_Parse
  \/ FM_CacheCreate
  \/ FM_CacheWrite
  \/ Env_DamageCache

(***************************************************************************)
(* The specification                                                       *)
(***************************************************************************)
\* the worker process at its start, with the requests rs still to arrive
WorkerInit(rs) ==
  /\ wpc = "boot"
  /\ started_as_root \in BOOLEAN
  /\ uid = IF started_as_root THEN 0 ELSE 1000
  /\ gid = IF started_as_root THEN 0 ELSE 1000
  /\ rlimits = [cpu |-> RLIM_INFINITY, as |-> RLIM_INFINITY,
                fsize |-> RLIM_INFINITY, nproc |-> RLIM_INFINITY]
  /\ cgroups = {}
  /\ mounts = {}
  /\ tmpdirs = {}
  /\ faults = 0
  /\ xpc = "idle"
  /\ config = DefaultConfig
  /\ trace_events = <<>>
  /\ cgroup = 0
  /\ temp_mount_point = 0
  /\ child = NoChild
  /\ execution_result = [kind |-> "none"]
  /\ result = NoValue
  /\ ret = NoValue
  /\ reqs = [r \in rs |-> "new"]
  /\ job = NoJob
  /\ ppc = "idle"
  /\ workspace_exists = FALSE
  /\ public_fixtures = <<>>
  /\ hidden_fixtures = <<>>
  /\ compile_result = NoExecResult
  /\ suite = NoSuite
  /\ public_test_results = SuiteResult(NoSuite)
  /\ hidden_test_results = SuiteResult(NoSuite)
  /\ fuzz = NoFuzz
  /\ fuzz_result = NoFuzzResult
  /\ response = NoValue
  /\ calls = <<>>
  /\ fetched = NoFetch
  /\ input_files = {}

(***************************************************************************)
(* fuzzer.rs: the inputs of a campaign (run_fuzz_campaign 59-84), for two  *)
(* campaigns that run side by side                                         *)
(***************************************************************************)
Campaigns == {1, 2}

\* a serde_json Value of the fuzzer: a number n, a string of chars, an array
\* of elems, or an object with keys and their elems
FuzzValue(kind, n, chars, keys, elems) ==
  [kind |-> kind, n |-> n, chars |-> chars, keys |-> keys, elems |-> elems]
FNull == FuzzValue("null", 0, <<>>, <<>>, <<>>)
FInt(n) == FuzzValue("int", n, <<>>, <<>>, <<>>)
FFloat(n) == FuzzValue("float", n, <<>>, <<>>, <<>>)
FString(chars) == FuzzValue("string", 0, chars, <<>>, <<>>)
FArray(elems) == FuzzValue("array", 0, <<>>, <<>>, elems)
FObject(keys, elems) == FuzzValue("object", 0, <<>>, keys, elems)

\* StdRng, as a generator with sixteen states: a draw gives the state and
\* moves to the next one
RngStates == 0..15
seed_from_u64(s) == s % 16
NextState(x) == (5 * x + 3) % 16
gen(x) == [out |-> x, rng |-> NextState(x)]
\* rng.gen_range(lo..hi)
gen_range(x, lo, hi) == [out |-> lo + (x % (hi - lo)), rng |-> NextState(x)]

\* lines 244-248
RECURSIVE generate_random_string(_, _)
generate_random_string(x, len) ==
  IF len = 0 THEN [out |-> <<>>, rng |-> x]
  ELSE LET c == gen(x)
           rest == generate_random_string(c.rng, len - 1)
       IN [out |-> <<c.out>> \o rest.out, rng |-> rest.rng]

\* lines 215-242, with the lengths 0..50, 0..10, 0..5 and 1..10 scaled down
\* to 0..3, 0..2, 0..2 and 1..3
RECURSIVE generate_random_value(_)
generate_random_value(x) ==
  LET arm == gen_range(x, 0, 5) IN
  CASE arm.out = 0 -> LET v == gen(arm.rng) IN [out |-> FInt(v.out), rng |-> v.rng]
    [] arm.out = 1 -> LET v == gen(arm.rng) IN [out |-> FFloat(v.out), rng |-> v.rng]
    [] arm.out = 2 ->
         LET len == gen_range(arm.rng, 0, 3)
             str == generate_random_string(len.rng, len.out)
         IN [out |-> FString(str.out), rng |-> str.rng]
    [] arm.out = 3 ->
         LET len == gen_range(arm.rng, 0, 2) IN
         IF len.out = 0 THEN [out |-> FArray(<<>>), rng |-> len.rng]
         ELSE LET v == generate_random_value(len.rng)
              IN [out |-> FArray(<<v.out>>), rng |-> v.rng]
    [] OTHER ->
         LET num_fields == gen_range(arm.rng, 0, 2) IN
         IF num_fields.out = 0 THEN [out |-> FObject(<<>>, <<>>), rng |-> num_fields.rng]
         ELSE LET key_len == gen_range(num_fields.rng, 1, 3)
                  key == generate_random_string(key_len.rng, key_len.out)
                  value == generate_random_value(key.rng)
              IN [out |-> FObject(<<key.out>>, <<value.out>>), rng |-> value.rng]

\* lines 170-204: one variation of a base input, with the delta range
\* -100.0..100.0 scaled down to -2..2 and the string of 10 chars to 2
Variation(base_input, x) ==
  CASE base_input.kind \in {"int", "float"} ->
         LET delta == gen_range(x, -2, 2)
         IN [out |-> FFloat(base_input.n + delta.out), rng |-> delta.rng]
    [] base_input.kind = "string" ->
         IF base_input.chars # <<>>
         THEN LET idx == gen_range(x, 0, Len(base_input.chars))
                  c == gen(idx.rng)
              IN [out |-> FString([base_input.chars EXCEPT ![idx.out + 1] = c.out]),
                  rng |-> c.rng]
         ELSE LET str == generate_random_string(x, 2)
              IN [out |-> FString(str.out), rng |-> str.rng]
    [] base_input.kind = "array" ->
         IF base_input.elems # <<>>
         THEN LET idx == gen_range(x, 0, Len(base_input.elems))
                  v == generate_random_value(idx.rng)
              IN [out |-> FArray([base_input.elems EXCEPT ![idx.out + 1] = v.out]),
                  rng |-> v.rng]
         ELSE [out |-> base_input, rng |-> x]
    [] base_input.kind = "object" ->
         IF base_input.keys # <<>>
         THEN LET idx == gen_range(x, 0, Len(base_input.keys))
                  v == generate_random_value(idx.rng)
              IN [out |-> FObject(base_input.keys,
                                  [base_input.elems EXCEPT ![idx.out + 1] = v.out]),
                  rng |-> v.rng]
         ELSE [out |-> base_input, rng |-> x]
    [] OTHER -> generate_random_value(x)

\* lines 166-209
RECURSIVE generate_input_variations(_, _, _)
generate_input_variations(base_input, count, x) ==
  IF count = 0 THEN [out |-> <<>>, rng |-> x]
  ELSE LET v == Variation(base_input, x)
           rest == generate_input_variations(base_input, count - 1, v.rng)
       IN [out |-> <<v.out>> \o rest.out, rng |-> rest.rng]

Swap(list, i, j) == [list EXCEPT ![i] = list[j], ![j] = list[i]]

\* line 81, SliceRandom::shuffle: for i from the last index down to 1, the
\* element at i is swapped with the one at gen_range(0..=i); i counts from 1
RECURSIVE shuffle(_, _, _)
shuffle(list, i, x) ==
  IF i <= 1 THEN [out |-> list, rng |-> x]
  ELSE LET j == gen_range(x, 0, i)
       IN shuffle(Swap(list, i, j.out + 1), i - 1, j.rng)

\* the frame of a step of a campaign
OnlyFuzzer == UNCHANGED <<credVars, rlimits, kernelVars, sandboxVars, pipeVars, calls,
                          fixtureVars, fetched, input_files, cheatVars, traceVars,
                          simVars>>

\* line 60 with the generator seeded from the operating system
FZ_Start_FromEntropy(k) ==
  /\ fz_pc[k] = "start"
  /\ \E x \in RngStates : rng' = [rng EXCEPT ![k] = x]
  /\ fuzz_inputs' = [fuzz_inputs EXCEPT ![k] = <<>>]
  /\ fz_pc' = [fz_pc EXCEPT ![k] = IF base_fixtures[k] = <<>> THEN "random"
                                   ELSE "variations"]
  /\ UNCHANGED <<seed, base_fixtures, test_inputs>>
  /\ OnlyFuzzer

\* lines 59-68: StdRng::seed_from_u64(self.seed)
FZ_Start(k) ==
  /\ fz_pc[k] = "start"
  /\ rng' = [rng EXCEPT ![k] = seed_from_u64(seed[k])]
  /\ fuzz_inputs' = [fuzz_inputs EXCEPT ![k] = <<>>]
  /\ fz_pc' = [fz_pc EXCEPT ![k] = IF base_fixtures[k] = <<>> THEN "random"
                                   ELSE "variations"]
  /\ UNCHANGED <<seed, base_fixtures, test_inputs>>
  /\ OnlyFuzzer

\* lines 69-73: the variations of the next base fixture
FZ_Variations(k) ==
  /\ fz_pc[k] = "variations"
  /\ LET i == Len(fuzz_inputs[k]) \div NumVariations + 1
         variations == generate_input_variations(base_fixtures[k][i], NumVariations,
                                                 rng[k])
     IN /\ fuzz_inputs' = [fuzz_inputs EXCEPT ![k] = @ \o variations.out]
        /\ rng' = [rng EXCEPT ![k] = variations.rng]
        /\ fz_pc' = [fz_pc EXCEPT ![k] = IF i < Len(base_fixtures[k]) THEN "variations"
                                         ELSE "random"]
  /\ UNCHANGED <<seed, base_fixtures, test_inputs>>
  /\ OnlyFuzzer

\* lines 76-78: one more random input
FZ_Random(k) ==
  /\ fz_pc[k] = "random"
  /\ LET done == Len(fuzz_inputs[k]) - NumVariations * Len(base_fixtures[k])
         v == generate_random_value(rng[k])
     IN /\ fuzz_inputs' = [fuzz_inputs EXCEPT ![k] = Append(@, v.out)]
        /\ rng' = [rng EXCEPT ![k] = v.rng]
        /\ fz_pc' = [fz_pc EXCEPT ![k] = IF done + 1 < NumRandomInputs THEN "random"
                                         ELSE "shuffle"]
  /\ UNCHANGED <<seed, base_fixtures, test_inputs>>
  /\ OnlyFuzzer

\* line 81
FZ_Shuffle(k) ==
  /\ fz_pc[k] = "shuffle"
  /\ LET s == shuffle(fuzz_inputs[k], Len(fuzz_inputs[k]), rng[k])
     IN /\ fuzz_inputs' = [fuzz_inputs EXCEPT ![k] = s.out]
        /\ rng' = [rng EXCEPT ![k] = s.rng]
  /\ fz_pc' = [fz_pc EXCEPT ![k] = "take"]
  /\ UNCHANGED <<seed, base_fixtures, test_inputs>>
  /\ OnlyFuzzer

\* line 84
FZ_Take(k) ==
  /\ fz_pc[k] = "take"
  /\ test_inputs' = [test_inputs EXCEPT ![k] =
                       SubSeq(fuzz_inputs[k], 1, Min(max_iterations, Len(fuzz_inputs[k])))]
  /\ fz_pc' = [fz_pc EXCEPT ![k] = "done"]
  /\ UNCHANGED <<seed, base_fixtures, rng, fuzz_inputs>>
  /\ OnlyFuzzer

\* no campaign is modelled
FuzzerIdle ==
  /\ fz_pc = [k \in Campaigns |-> "idle"]
  /\ seed = [k \in Campaigns |-> 0]
  /\ base_fixtures = [k \in Campaigns |-> <<>>]
  /\ rng = [k \in Campaigns |-> 0]
  /\ fuzz_inputs = [k \in Campaigns |-> <<>>]
  /\ test_inputs = [k \in Campaigns |-> <<>>]

\* Fuzzer::new (43-50) draws the seed; the callers give the base fixtures
Seeds == {0, 1, 2}
BaseFixtureLists ==
  {<<>>,
   <<FInt(3)>>,
   <<FString(<<1, 2>>), FArray(<<FInt(3)>>)>>,
   <<FObject(<<<<1>>>>, <<FInt(3)>>), FNull, FString(<<>>)>>}
FuzzerStart ==
  /\ fz_pc = [k \in Campaigns |-> "start"]
  /\ seed \in [Campaigns -> Seeds]
  /\ base_fixtures \in [Campaigns -> BaseFixtureLists]
  /\ rng = [k \in Campaigns |-> 0]
  /\ fuzz_inputs = [k \in Campaigns |-> <<>>]
  /\ test_inputs = [k \in Campaigns |-> <<>>]

FuzzerNext ==
  \E k \in Campaigns :
    \/ FZ_Start(k)
    \/ FZ_Variations(k)
    \/ FZ_Random(k)
    \/ FZ_Shuffle(k)
    \/ FZ_Take(k)

(***************************************************************************)
(* anti_cheat.rs: AntiCheatEngine                                          *)
(***************************************************************************)
\* the chars of the tokens of extract_rust_tokens (243-273)
Chars(token) ==
  CASE token = "fn" -> <<102, 110>>
    [] token = "struct" -> <<115, 116, 114, 117, 99, 116>>
    [] token = "enum" -> <<101, 110, 117, 109>>
    [] token = "impl" -> <<105, 109, 112, 108>>
    [] OTHER -> <<111, 116, 104, 101, 114, 95, 105, 116, 101, 109>>   \* other_item

\* token_sequence.join(" ") (lines 351-352)
RECURSIVE join(_)
join(tokens) ==
  IF tokens = <<>> THEN <<>>
  ELSE IF Len(tokens) = 1 THEN Chars(tokens[1])
  ELSE Chars(tokens[1]) \o <<32>> \o join(Tail(tokens))

\* strsim::jaro over two strings: each char of a, in order, takes the first
\* free equal char of b within the search range; a match that lies before
\* the previous one is a transposition.  i and the positions count from 0.
RECURSIVE JaroScan(_, _, _, _)
JaroScan(a, b, i, st) ==
  IF i >= Len(a) THEN st
  ELSE LET search_range == (IF Len(a) >= Len(b) THEN Len(a) ELSE Len(b)) \div 2 - 1
           min_bound == IF i > search_range THEN i - search_range ELSE 0
           max_bound == Min(Len(b) - 1, i + search_range)
           free == {j \in min_bound..max_bound : b[j + 1] = a[i + 1] /\ j \notin st.consumed}
       IN IF free = {} THEN JaroScan(a, b, i + 1, st)
          ELSE LET j == CHOOSE x \in free : \A y \in free : x <= y
               IN JaroScan(a, b, i + 1,
                           [consumed |-> st.consumed \cup {j},
                            matches |-> st.matches + 1,
                            transpositions |-> st.transpositions
                                                + (IF j < st.b_match_index THEN 1 ELSE 0),
                            b_match_index |-> j])
jaro(a, b) ==
  IF a = <<>> /\ b = <<>> THEN One
  ELSE IF a = <<>> \/ b = <<>> THEN Zero
  ELSE IF Len(a) = 1 /\ Len(b) = 1 THEN (IF a = b THEN One ELSE Zero)
  ELSE LET st == JaroScan(a, b, 0, [consumed |-> {}, matches |-> 0,
                                    transpositions |-> 0, b_match_index |-> 0])
           m == st.matches
       IN IF m = 0 THEN Zero
          ELSE RMul(Rat(1, 3),
                    RAdd(RAdd(Rat(m, Len(a)), Rat(m, Len(b))),
                         Rat(m - st.transpositions, m)))

RECURSIVE CommonPrefix(_, _)
CommonPrefix(a, b) ==
  IF a = <<>> \/ b = <<>> \/ Head(a) # Head(b) THEN 0
  ELSE 1 + CommonPrefix(Tail(a), Tail(b))

\* strsim::jaro_winkler: the Jaro similarity raised by a tenth of what is
\* missing to 1 for each char of the common prefix, and no more than 1
jaro_winkler(a, b) ==
  LET jaro_distance == jaro(a, b)
      boosted == RAdd(jaro_distance,
                      RMul(Rat(CommonPrefix(a, b), 10), RSub(One, jaro_distance)))
  IN IF RGeq(One, boosted) THEN boosted ELSE One

RECURSIVE SumOver(_, _, _, _)
SumOver(features, features1, features2, acc) ==
  IF features = {} THEN acc
  ELSE LET feature == CHOOSE f \in features : TRUE
           count1 == IF feature \in DOMAIN features1 THEN features1[feature] ELSE 0
           count2 == IF feature \in DOMAIN features2 THEN features2[feature] ELSE 0
           rest == features \ {feature}
       IN IF count1 > 0 \/ count2 > 0
          THEN SumOver(rest, features1, features2,
                       [similarity_sum |->
                          RAdd(acc.similarity_sum,
                               RSub(One, Rat(IF count1 >= count2 THEN count1 - count2
                                             ELSE count2 - count1,
                                             IF count1 + count2 >= 1 THEN count1 + count2
                                             ELSE 1))),
                        count |-> acc.count + 1])
          ELSE SumOver(rest, features1, features2, acc)

\* lines 362-387
calculate_structural_similarity(features1, features2) ==
  LET r == SumOver(DOMAIN features1 \cup DOMAIN features2, features1, features2,
                   [similarity_sum |-> Zero, count |-> 0])
  IN IF r.count = 0 THEN Zero ELSE RDiv(r.similarity_sum, Rat(r.count, 1))

\* lines 346-360
calculate_similarity(fp1, fp2) ==
  LET hash_similarity == IF fp1.ast_hash = fp2.ast_hash THEN One ELSE Zero
      token_similarity == jaro_winkler(join(fp1.token_sequence), join(fp2.token_sequence))
      structural_similarity ==
        calculate_structural_similarity(fp1.structural_features, fp2.structural_features)
  IN RAdd(RAdd(RMul(Rat(4, 10), hash_similarity), RMul(Rat(4, 10), token_similarity)),
          RMul(Rat(2, 10), structural_similarity))

\* assess_risk_level with the bands open at their lower ends
assess_risk_level_Open(max_similarity) ==
  IF RGt(max_similarity, Rat(9, 10)) THEN "Critical"
  ELSE IF RGt(max_similarity, Rat(7, 10)) THEN "High"
  ELSE IF RGt(max_similarity, Rat(5, 10)) THEN "Medium"
  ELSE "Low"

\* lines 389-396
assess_risk_level(max_similarity) ==
  IF RGeq(max_similarity, Rat(9, 10)) THEN "Critical"
  ELSE IF RGeq(max_similarity, Rat(7, 10)) THEN "High"
  ELSE IF RGeq(max_similarity, Rat(5, 10)) THEN "Medium"
  ELSE "Low"

\* a Rust source: its text, and the kinds of its items (every fn has an
\* empty body)
Code(text, items) == [text |-> text, items |-> items]
Codes ==
  {Code("empty", <<>>),
   Code("comment", <<>>),
   Code("a", <<"fn", "fn", "struct">>),
   Code("a2", <<"fn", "fn", "struct">>),
   Code("b", <<"other_item", "fn", "fn", "other_item">>),
   Code("c", <<"fn", "struct">>),
   Code("d", <<"fn", "impl", "struct">>)}

Occurrences(tokens, token) == Cardinality({i \in DOMAIN tokens : tokens[i] = token})

\* lines 154-172 and 243-273: one token and one count for every item; md5
\* is taken to be injective on the texts
generate_rust_fingerprint(code) ==
  [ast_hash |-> code.text,
   token_sequence |-> code.items,
   structural_features |->
     [feature \in {code.items[i] : i \in DOMAIN code.items}
        |-> Occurrences(code.items, feature)]]
NoFingerprint == generate_rust_fingerprint(Code("", <<>>))

\* a string is the sequence of its characters
starts_with(s, prefix) == Len(prefix) <= Len(s) /\ SubSeq(s, 1, Len(prefix)) = prefix
contains(s, pat) ==
  \E i \in 1..(Len(s) - Len(pat) + 1) : SubSeq(s, i, i + Len(pat) - 1) = pat

\* the ids of the bounds
ch1 == <<"c", "1">>
ch2 == <<"c", "2">>
rust == <<"r", "u", "s", "t">>
u1 == <<"u", "1">>
u10 == <<"u", "1", "0">>
u2 == <<"u", "2">>
u3 == <<"u", "3">>

\* the key a submission is stored under: challenge_id:language:user_id
SubmissionKey(challenge_id, language, user) ==
  challenge_id \o <<":">> \o language \o <<":">> \o user
\* the submissions that can have been stored, each by its challenge and user
Submissions ==
  {[challenge_id |-> ch1, user |-> u1], [challenge_id |-> ch1, user |-> u10],
   [challenge_id |-> ch1, user |-> u2], [challenge_id |-> ch2, user |-> u2]}
KeyOf(submission) == SubmissionKey(submission.challenge_id, rust, submission.user)
Keys == {KeyOf(submission) : submission \in Submissions}
Stored(submission_key) == CHOOSE submission \in Submissions : KeyOf(submission) = submission_key

\* line 67: format!("{}:{}", challenge_id, language.to_lowercase()); the check
\* is for a rust submission to challenge c1
challenge_key == ch1 \o <<":">> \o rust

\* line 71 with the test on the requesting user left out
Compared_AnyUser(submission_key) == starts_with(submission_key, challenge_key)

\* line 71: starts_with(&challenge_key) && !contains(user_id)
Compared(submission_key) ==
  starts_with(submission_key, challenge_key) /\ ~contains(submission_key, user_id)

MatchedSubmission(submission_key, similarity) ==
  [submission_id |-> submission_key, similarity_score |-> similarity]

\* the frame of a step of the anti-cheat engine
OnlyAntiCheat == UNCHANGED <<credVars, rlimits, kernelVars, sandboxVars, pipeVars, calls,
                             fixtureVars, fetched, input_files, fuzzerVars,
                             traceVars, simVars>>

\* lines 70-81: the next entry of the map, in the order the HashMap gives
AC_Compare ==
  /\ ac_pc = "compare"
  /\ \E submission_key \in unvisited :
       /\ unvisited' = unvisited \ {submission_key}
       /\ LET similarity == calculate_similarity(fingerprint,
                                                 submission_database[submission_key])
          IN matches' = IF Compared(submission_key) /\ RGt(similarity, Rat(3, 10))
                        THEN Append(matches, MatchedSubmission(submission_key, similarity))
                        ELSE matches
       /\ compared_keys' = IF Compared(submission_key)
                           THEN compared_keys \cup {submission_key}
                           ELSE compared_keys
  /\ UNCHANGED <<ac_pc, submission_database, fingerprint, plagiarism_result, user_id>>
  /\ OnlyAntiCheat

\* matches.iter().map(|m| m.similarity_score).fold(0.0, f64::max)
RECURSIVE FoldMax(_, _)
FoldMax(ms, acc) ==
  IF ms = <<>> THEN acc ELSE FoldMax(Tail(ms), RMax(acc, Head(ms).similarity_score))

\* lines 83-93
AC_Assess ==
  /\ ac_pc = "compare"
  /\ unvisited = {}
  /\ LET max_similarity == FoldMax(matches, Zero)
     IN plagiarism_result' = Ok([similarity_score |-> max_similarity,
                                 matched_submissions |-> matches,
                                 risk_level |-> assess_risk_level(max_similarity)])
  /\ ac_pc' = "done"
  /\ UNCHANGED <<submission_database, fingerprint, unvisited, matches, user_id,
                 compared_keys>>
  /\ OnlyAntiCheat

\* no check is modelled
AntiCheatIdle ==
  /\ ac_pc = "idle"
  /\ submission_database = <<>>
  /\ fingerprint = NoFingerprint
  /\ unvisited = {}
  /\ matches = <<>>
  /\ plagiarism_result = NoValue
  /\ user_id = <<>>
  /\ compared_keys = {}

\* the databases store_submission (96-105) can have built: any source for
\* users u10 and u2 on challenge c1, one source under the other keys
StoredUnder(keys, codes) ==
  UNION {[stored -> {generate_rust_fingerprint(code) : code \in codes}] :
           stored \in SUBSET keys}
AnySource == {SubmissionKey(ch1, rust, u10), SubmissionKey(ch1, rust, u2)}
Databases ==
  {[submission_key \in DOMAIN any \cup DOMAIN others |->
      IF submission_key \in DOMAIN any THEN any[submission_key]
      ELSE others[submission_key]] :
     any \in StoredUnder(AnySource, Codes),
     others \in StoredUnder(Keys \ AnySource, {Code("a", <<"fn", "fn", "struct">>)})}

\* the users a check is made for: one with a stored submission whose id is
\* part of another user's id, one with none, and the empty id
UserIds == {u1, u3, <<>>}

\* check_plagiarism at line 66: the fingerprint is made, the loop begins
AntiCheatStart ==
  /\ ac_pc = "compare"
  /\ submission_database \in Databases
  /\ fingerprint \in {generate_rust_fingerprint(code) : code \in Codes}
  /\ unvisited = DOMAIN submission_database
  /\ matches = <<>>
  /\ plagiarism_result = NoValue
  /\ user_id \in UserIds
  /\ compared_keys = {}

AntiCheatNext == AC_Compare \/ AC_Assess

(***************************************************************************)
(* calculate_similarity as the f64 it returns: the operations of lines     *)
(* 346-387 and of strsim in the order of the code, each rounded.  The loop *)
(* of calculate_structural_similarity runs over a HashSet, whose order is  *)
(* any order.                                                              *)
(***************************************************************************)
jaro_f64(a, b) ==
  IF a = <<>> /\ b = <<>> THEN F64One
  ELSE IF a = <<>> \/ b = <<>> THEN F64Zero
  ELSE IF Len(a) = 1 /\ Len(b) = 1 THEN (IF a = b THEN F64One ELSE F64Zero)
  ELSE LET st == JaroScan(a, b, 0, [consumed |-> {}, matches |-> 0,
                                    transpositions |-> 0, b_match_index |-> 0])
           m == st.matches
       IN IF m = 0 THEN F64Zero
          ELSE FMul(FDiv(F64One, F64(3)),
                    FAdd(FAdd(FDiv(F64(m), F64(Len(a))), FDiv(F64(m), F64(Len(b)))),
                         FDiv(FSub(F64(m), F64(st.transpositions)), F64(m))))

jaro_winkler_f64(a, b) ==
  The({LET boosted == FAdd(jaro_distance,
                           FMul(FMul(Lit(1, 10), F64(CommonPrefix(a, b))),
                                FSub(F64One, jaro_distance)))
       IN IF FGeq(F64One, boosted) THEN boosted ELSE F64One
       : jaro_distance \in {jaro_f64(a, b)}})

\* the orders a HashSet of these features can be iterated in
Orders(features) ==
  {order \in [1..Cardinality(features) -> features] :
     \A i, j \in DOMAIN order : order[i] = order[j] => i = j}

\* lines 372-381 for the features in the order given
RECURSIVE SumOver_f64(_, _, _, _)
SumOver_f64(order, features1, features2, acc) ==
  IF order = <<>> THEN acc
  ELSE LET feature == Head(order)
           count1 == IF feature \in DOMAIN features1 THEN features1[feature] ELSE 0
           count2 == IF feature \in DOMAIN features2 THEN features2[feature] ELSE 0
       IN IF count1 > 0 \/ count2 > 0
          THEN The({SumOver_f64(Tail(order), features1, features2, next) : next \in
                 {[similarity_sum |->
                     FAdd(acc.similarity_sum,
                          FSub(F64One,
                               FDiv(IF count1 >= count2 THEN FSub(F64(count1), F64(count2))
                                    ELSE FSub(F64(count2), F64(count1)),
                                    FMax(FAdd(F64(count1), F64(count2)), F64One)))),
                   count |-> acc.count + 1]}})
          ELSE SumOver_f64(Tail(order), features1, features2, acc)

\* lines 362-387
calculate_structural_similarity_f64(features1, features2, order) ==
  The({IF r.count = 0 THEN F64Zero ELSE FDiv(r.similarity_sum, F64(r.count))
       : r \in {SumOver_f64(order, features1, features2,
                            [similarity_sum |-> F64Zero, count |-> 0])}})

\* line 359 with the weights of the hash and of the structure exchanged
WeightedCombination_Exchanged(hash_similarity, token_similarity, structural_similarity) ==
  FAdd(FAdd(FMul(Lit(2, 10), hash_similarity), FMul(Lit(4, 10), token_similarity)),
       FMul(Lit(4, 10), structural_similarity))

\* line 359: 0.4 * hash_similarity + 0.4 * token_similarity + 0.2 * structural_similarity
WeightedCombination(hash_similarity, token_similarity, structural_similarity) ==
  FAdd(FAdd(FMul(Lit(4, 10), hash_similarity), FMul(Lit(4, 10), token_similarity)),
       FMul(Lit(2, 10), structural_similarity))

\* the frame of a step of calculate_similarity
OnlySimilarity == UNCHANGED <<credVars, rlimits, kernelVars, sandboxVars, pipeVars, calls,
                              fixtureVars, fetched, input_files, fuzzerVars, cheatVars,
                              traceVars>>

\* line 348
SM_Hash ==
  /\ sm_pc = "hash"
  /\ sm_hash' = IF sm_fp1.ast_hash = sm_fp2.ast_hash THEN F64One ELSE F64Zero
  /\ sm_pc' = "token"
  /\ UNCHANGED <<sm_fp1, sm_fp2, sm_token, sm_structural, sm_ret>>
  /\ OnlySimilarity

\* lines 351-353
SM_Token ==
  /\ sm_pc = "token"
  /\ sm_token' = jaro_winkler_f64(join(sm_fp1.token_sequence), join(sm_fp2.token_sequence))
  /\ sm_pc' = "structural"
  /\ UNCHANGED <<sm_fp1, sm_fp2, sm_hash, sm_structural, sm_ret>>
  /\ OnlySimilarity

\* line 356
SM_Structural ==
  /\ sm_pc = "structural"
  /\ \E order \in Orders(DOMAIN sm_fp1.structural_features
                           \cup DOMAIN sm_fp2.structural_features) :
       sm_structural' = calculate_structural_similarity_f64(sm_fp1.structural_features,
                                                            sm_fp2.structural_features,
                                                            order)
  /\ sm_pc' = "combine"
  /\ UNCHANGED <<sm_fp1, sm_fp2, sm_hash, sm_token, sm_ret>>
  /\ OnlySimilarity

\* line 359
SM_Return ==
  /\ sm_pc = "combine"
  /\ sm_ret' = WeightedCombination(sm_hash, sm_token, sm_structural)
  /\ sm_pc' = "done"
  /\ UNCHANGED <<sm_fp1, sm_fp2, sm_hash, sm_token, sm_structural>>
  /\ OnlySimilarity

\* no similarity is computed
SimilarityIdle ==
  /\ sm_pc = "idle"
  /\ sm_fp1 = NoFingerprint
  /\ sm_fp2 = NoFingerprint
  /\ sm_hash = F64Zero
  /\ sm_token = F64Zero
  /\ sm_structural = F64Zero
  /\ sm_ret = F64Zero

\* calculate_similarity is entered with two fingerprints
SimilarityStart ==
  /\ sm_pc = "hash"
  /\ sm_fp1 \in {generate_rust_fingerprint(code) : code \in Codes}
  /\ sm_fp2 \in {generate_rust_fingerprint(code) : code \in Codes}
  /\ sm_hash = F64Zero
  /\ sm_token = F64Zero
  /\ sm_structural = F64Zero
  /\ sm_ret = F64Zero

SimilarityNext == SM_Hash \/ SM_Token \/ SM_Structural \/ SM_Return

(***************************************************************************)
(* The timestamps of the trace events: execute_in_sandbox reads the time   *)
(* elapsed since its own start_time for each event, run_test_suite appends *)
(* the events of each execution to the list of the suite.                  *)
(***************************************************************************)
\* largest reading of Instant::elapsed, in clock ticks
MaxElapsed == 3
\* largest number of fixtures of the suite
MaxSuiteFixtures == 2

TimedEvent(type, timestamp) == [event_type |-> type, timestamp |-> timestamp]

\* the frame of a step of the suite
OnlySuite == UNCHANGED <<credVars, rlimits, kernelVars, sandboxVars, pipeVars, calls,
                         fixtureVars, fetched, input_files, fuzzerVars,
                         cheatVars, simVars>>

\* worker.rs 322 / 360 call execute_in_sandbox; sandbox.rs 63-77: start_time
\* is taken and the start event gets start_time.elapsed()
TR_Call ==
  /\ tr_pc = "loop"
  /\ tr_i < tr_total
  /\ \E elapsed \in 0..MaxElapsed :
       tr_events' = <<TimedEvent("execution_start", elapsed)>>
  /\ tr_pc' = "exec"
  /\ UNCHANGED <<tr_language, tr_total, tr_i, tr_result, tr_ret>>
  /\ OnlySuite

\* sandbox.rs 115-145: execution_time is start_time.elapsed() after the
\* child ended, the complete event carries it and the trace is returned;
\* worker.rs 329-332 (forge test: the trace is the suite's, return) and
\* 374-375 (the trace is appended to the suite's)
TR_Complete ==
  /\ tr_pc = "exec"
  /\ \E execution_time \in tr_events[1].timestamp..MaxElapsed :
       LET events == Append(tr_events,
                                  TimedEvent("execution_complete", execution_time))
       IN /\ tr_events' = events
          /\ IF tr_language = "solidity"
             THEN /\ tr_result' = events
                  /\ tr_ret' = Ok(events)
                  /\ tr_pc' = "done"
                  /\ UNCHANGED tr_i
             ELSE /\ tr_result' = tr_result \o events
                  /\ tr_i' = tr_i + 1
                  /\ tr_pc' = "loop"
                  /\ UNCHANGED tr_ret
  /\ UNCHANGED <<tr_language, tr_total>>
  /\ OnlySuite

\* sandbox.rs 146-158: the execution returns Err and its events are dropped;
\* the `?` of worker.rs 322 / 360 returns the error
TR_Error ==
  /\ tr_pc = "exec"
  /\ tr_events' = <<>>
  /\ tr_ret' = Err("Execution timed out")
  /\ tr_pc' = "done"
  /\ UNCHANGED <<tr_language, tr_total, tr_i, tr_result>>
  /\ OnlySuite

\* worker.rs 382: the loop is over
TR_Return ==
  /\ tr_pc = "loop"
  /\ tr_i = tr_total
  /\ tr_ret' = Ok(tr_result)
  /\ tr_pc' = "done"
  /\ UNCHANGED <<tr_language, tr_total, tr_i, tr_events, tr_result>>
  /\ OnlySuite

\* no suite is modelled
TraceIdle ==
  /\ tr_pc = "idle"
  /\ tr_language = ""
  /\ tr_total = 0
  /\ tr_i = 0
  /\ tr_events = <<>>
  /\ tr_result = <<>>
  /\ tr_ret = NoValue

\* worker.rs 307-308: TestSuiteResult::default()
TraceStart ==
  /\ tr_pc = "loop"
  /\ tr_language \in {"solidity", "python"}
  /\ tr_total \in 0..MaxSuiteFixtures
  /\ tr_i = 0
  /\ tr_events = <<>>
  /\ tr_result = <<>>
  /\ tr_ret = NoValue

TraceNext == TR_Call \/ TR_Complete \/ TR_Error \/ TR_Return

(***************************************************************************)
(* lib.rs: execute_in_sandbox called by the users of the library, as the   *)
(* tests of lib.rs call it                                                 *)
(***************************************************************************)
\* number of calls the users of the library make in one behaviour
MaxLibCalls == 2

\* lib.rs 17 (the default config), 36-39 (100 ms) and a limit of 1.5 s
LibConfigs ==
  {DefaultConfig,
   [DefaultConfig EXCEPT !.time_limit = 100],
   [DefaultConfig EXCEPT !.time_limit = 1500]}

\* lib.rs 20-25, 42-47: a call of execute_in_sandbox
Lib_Call ==
  /\ Len(calls) < MaxLibCalls
  /\ \E cfg \in LibConfigs : Call("lib", cfg)
  /\ UNCHANGED <<credVars, rlimits, kernelVars, pipeVars>>
  /\ UNCHANGED <<fixtureVars, fetched, input_files, libVars>>

\* the caller has the Result
Lib_Return ==
  /\ TakeReturn
  /\ UNCHANGED <<credVars, rlimits, kernelVars, pipeVars>>
  /\ UNCHANGED <<fixtureVars, fetched, input_files, libVars>>

SandboxNext ==
  \/ Lib_Call
  \/ Exec_Start
  \/ Exec_CreateCgroup
  \/ Exec_SetupVolume
  \/ Exec_SetLimits
  \/ Exec_Spawn
  \/ Exec_Attach
  \/ Child_Exit
  \/ Exec_WaitOutput
  \/ Exec_WaitFail
  \/ Exec_Timeout
  \/ Exec_Match
  \/ Exec_DeleteCgroup
  \/ Exec_Unmount
  \/ Lib_Return

\* the worker process at its start, with the requests rs still to arrive
InitWith(rs) ==
  WorkerInit(rs) /\ FixtureInit /\ FuzzerIdle /\ AntiCheatIdle /\ TraceIdle /\ SimilarityIdle

Init == InitWith(Requests)

Next ==
  \/ Main_DropPrivileges
  \/ Main_Serve
  \/ \E r \in DOMAIN reqs : HG_Arrive(r)
  \/ \E r \in DOMAIN reqs : HG_Lock(r)
  \/ P_Workspace
  \/ P_FetchPublic
  \/ P_Prepare
  \/ P_Compile_Call
  \/ P_Compile_Return
  \/ P_Suite_Call
  \/ P_Suite_Return
  \/ P_Suite_Done
  \/ P_FetchHidden
  \/ P_Fuzz_Start
  \/ P_Fuzz_Call
  \/ P_Fuzz_Return
  \/ P_Fuzz_Done
  \/ P_Aggregate
  \/ \E r \in DOMAIN reqs : HG_Reply(r)
  \/ Exec_Start
  \/ Exec_CreateCgroup
  \/ Exec_SetupVolume
  \/ Exec_SetLimits
  \/ Exec_Spawn
  \/ Exec_Attach
  \/ Child_Exit
  \/ Exec_WaitOutput
  \/ Exec_WaitFail
  \/ Exec_Timeout
  \/ Exec_Match
  \/ Exec_DeleteCgroup
  \/ Exec_Unmount

Spec == Init /\ [][Next]_vars

\* the same worker when two clients post to /grade
TwoRequests == {1, 2}
InitTwo == InitWith(TwoRequests)
SpecTwo == InitTwo /\ [][Next]_vars

\* the fixture manager as its callers drive it, fetch after fetch
FixtureManagerInit ==
  /\ WorkerInit(Requests)
  /\ FixtureStart
  /\ FuzzerIdle
  /\ AntiCheatIdle
  /\ TraceIdle
  /\ SimilarityIdle
FixtureSpec == FixtureManagerInit /\ [][FixtureNext]_vars

\* one check_plagiarism over every database and submission of the bounds
AntiCheatInit ==
  /\ WorkerInit(Requests)
  /\ started_as_root
  /\ FixtureInit
  /\ FuzzerIdle
  /\ AntiCheatStart
  /\ TraceIdle
  /\ SimilarityIdle
AntiCheatSpec == AntiCheatInit /\ [][AntiCheatNext]_vars

\* the process of a user of the library
SandboxInit == InitWith(Requests)
SandboxSpec == SandboxInit /\ [][SandboxNext]_vars

\* one run_test_suite over the clock readings of the bounds
TraceInit ==
  /\ WorkerInit(Requests)
  /\ started_as_root
  /\ FixtureInit
  /\ FuzzerIdle
  /\ AntiCheatIdle
  /\ TraceStart
  /\ SimilarityIdle
TraceSpec == TraceInit /\ [][TraceNext]_vars

\* calculate_similarity alone, for every pair of the fingerprints of Codes
SimilarityInit ==
  /\ WorkerInit(Requests)
  /\ started_as_root
  /\ FixtureInit
  /\ FuzzerIdle
  /\ AntiCheatIdle
  /\ TraceIdle
  /\ SimilarityStart
SimilaritySpec == SimilarityInit /\ [][SimilarityNext]_vars

\* two campaigns of the fuzzer, step by step in any order
FuzzerInit ==
  /\ WorkerInit(Requests)
  /\ FixtureInit
  /\ FuzzerStart
  /\ AntiCheatIdle
  /\ TraceIdle
  /\ SimilarityIdle
FuzzerSpec == FuzzerInit /\ [][FuzzerNext]_vars

(***************************************************************************)
(* parse_fixtures and the cache as functions of a JSON document: a public  *)
(* fetch that has just received its body, for every body of ParseDocs      *)
(***************************************************************************)
\* a key an object does not have
JAbsent == [kind |-> "absent", s |-> "", n |-> 0, b |-> FALSE]
\* what a fixture object can hold under each key: nothing, values of the
\* type of the field, values of another type; "extra" is a key no field has
FieldChoices ==
  [id : {JAbsent, JStr("a"), JStr(""), JNum(7)},
   name : {JAbsent, JStr("n"), JNum(1)},
   description : {JAbsent, JStr("d")},
   input : {JAbsent, JNum(42), JStr("x")},
   expected_output : {JAbsent, JBool(TRUE)},
   hidden : {JAbsent, JBool(TRUE), JStr("true")},
   timeout : {JAbsent, JNum(5), JNum(0), JNum(-1), JStr("5")},
   gas_limit : {JAbsent, JNum(10)},
   extra : {JAbsent, JNum(1)}]
ObjectOf(c) == [k \in {k \in DOMAIN c : c[k] # JAbsent} |-> c[k]]
ParseObjects == {ObjectOf(c) : c \in FieldChoices}
\* three objects to make arrays of two elements with
FullObject(id) ==
  [id |-> JStr(id), name |-> JStr("n"), description |-> JStr("d"), input |-> JNum(42),
   expected_output |-> JBool(TRUE), hidden |-> JBool(TRUE), timeout |-> JNum(5),
   gas_limit |-> JNum(10)]
PairObjects == {FullObject("a"), [id |-> JStr("b")], [name |-> JStr("n")]}
ParseDocs ==
  {JsonNoArray, JsonArray(<<>>)}
    \cup {JsonArray(<<o>>) : o \in ParseObjects}
    \cup {JsonArray(<<o, p>>) : o, p \in PairObjects}

ParseInit ==
  /\ WorkerInit(Requests)
  /\ FuzzerIdle
  /\ AntiCheatIdle
  /\ TraceIdle
  /\ SimilarityIdle
  /\ started_as_root
  /\ fx_pc = "parse"
  /\ fx_kind = "public"
  /\ fx_n = 1
  /\ fx_log = <<"cache_exists", "get_public">>
  /\ fx_cached = Err("Cache miss")
  /\ cache_content = NoText
  /\ fx_body \in ParseDocs
  /\ fx_fixtures = NoValue
  /\ fx_ret = NoValue
  /\ cache_file = NoFile
  /\ miss_result = [valid |-> FALSE, fixtures |-> <<>>]

ParseNext ==
  \/ FM_Parse
  \/ FM_CacheCreate
  \/ FM_CacheWrite
  \/ FM_Start("public")
  \/ FM_CacheLookup

ParseSpec == ParseInit /\ [][ParseNext]_vars

(***************************************************************************)
(* Properties                                                              *)
(***************************************************************************)
InitialRlimits == [cpu |-> RLIM_INFINITY, as |-> RLIM_INFINITY,
                   fsize |-> RLIM_INFINITY, nproc |-> RLIM_INFINITY]
EventTypes(events) == [i \in DOMAIN events |-> events[i].event_type]
\* the trace a caller of execute_in_sandbox holds: an Err is a String
CallerTrace(r) == IF r.ok THEN r.value.trace_events ELSE <<>>
Returned == xpc = "returned"

\* C1: every return of execute_in_sandbox happens only after the cgroup it
\* created has been deleted and the ephemeral volume it mounted has been
\* unmounted and its directory removed.
C1_CleanupBeforeReturn ==
  Returned => /\ cgroup \notin cgroups
              /\ temp_mount_point \notin mounts
              /\ temp_mount_point \notin tmpdirs

\* C2: once execute_in_sandbox has returned its timeout outcome, the spawned
\* child is no longer running.
C2_ChildKilledOnTimeout ==
  (Returned /\ execution_result.kind = "elapsed") => child.state # "running"

\* C3: if the child has not exited when time_limit elapses, execute_in_sandbox
\* returns an error or a result with success = false, never success.
C3_TimeoutNeverSuccess ==
  (Returned /\ execution_result.kind = "elapsed") => (~ret.ok \/ ~ret.value.success)

C3_Witness ==
  /\ Returned
  /\ execution_result.kind = "elapsed"
  /\ ret = Err("Execution timed out")

\* C4: whatever the outcome, the caller of execute_in_sandbox receives a trace
\* holding execution_start followed by exactly one of execution_complete or
\* execution_timeout, and the timeout outcome carries execution_timeout.
C4_CallerGetsTrace ==
  Returned =>
    /\ EventTypes(CallerTrace(ret)) \in {<<"execution_start", "execution_complete">>,
                                         <<"execution_start", "execution_timeout">>}
    /\ execution_result.kind = "elapsed" =>
          EventTypes(CallerTrace(ret)) = <<"execution_start", "execution_timeout">>

C6_WorkerLimitsUnchanged ==
  xpc \in {"idle", "returned"} => rlimits = InitialRlimits

\* C7: if the worker starts as root, no grade request is handled and no child
\* is run while the process has uid 0: the switch to the unprivileged uid and
\* gid has succeeded before the listener serves.
C7_NeverServesAsRoot ==
  (started_as_root /\ (wpc = "serving" \/ child.state = "running"
                        \/ \E r \in Requests : reqs[r] \in {"waiting", "running"}))
    => (uid = NOBODY /\ gid = NOBODY)

\* C8: whenever a child runs under a config with network_disabled, the
\* executor has put it in a network-isolated context.
C8_ChildNetworkIsolated ==
  (child.state = "running" /\ config.network_disabled) => child.netns = "isolated"

\* C9: when the compile command runs and exits with failure, the pipeline
\* returns the in-band report (success false, score 0, passedTests 0,
\* totalTests 0, stage compilation) and no other sandboxed execution is
\* started for the invocation.
C9_CompileFailureShortCircuits ==
  (Len(calls) >= 1 /\ calls[1] = [stage |-> "compile", outcome |-> "failure"]) =>
    /\ Len(calls) = 1
    /\ xpc = "idle"
    /\ ppc = "done"
    /\ response.ok
    /\ response.value.success = FALSE
    /\ response.value.score = 0
    /\ response.value.passedTests = 0
    /\ response.value.totalTests = 0
    /\ response.value.stage = "compilation"

C9_Witness ==
  /\ ppc = "done"
  /\ calls = <<[stage |-> "compile", outcome |-> "failure"]>>
  /\ response.ok
  /\ response.value.stage = "compilation"

\* C10: in every grading report 0 <= score <= 100, passedTests <= totalTests,
\* and success holds exactly when score >= 70.
C10_ReportInRange ==
  (ppc = "done" /\ response.ok) =>
    /\ 0 <= response.value.score
    /\ response.value.score <= 100
    /\ response.value.passedTests <= response.value.totalTests
    /\ response.value.success <=> (response.value.score >= 70)

C10_Witness ==
  /\ ppc = "done"
  /\ response.ok
  /\ response.value.stage = "none"
  /\ response.value.totalTests = 2
  /\ response.value.passedTests = 0
  /\ response.value.fuzzResult.crashesFound >= 1
  /\ response.value.score = 0

\* the executions of a stage that ended with the given outcome
CallsOf(stage, outcome) ==
  Cardinality({i \in DOMAIN calls : calls[i] = [stage |-> stage, outcome |-> outcome]})

\* the fixtures of a list that passed, read off the executions of its stage:
\* one `forge test` stands for a whole solidity list, any other fixture has
\* its own execution
PassedOf(stage, fixtures) ==
  IF job.language = "solidity"
  THEN IF CallsOf(stage, "success") > 0 THEN Len(fixtures) ELSE 0
  ELSE CallsOf(stage, "success")

\* C11: the reported score is max(0, floor(passed * 100 / total) - 5 * crashes),
\* with the base taken as 0 when total = 0, where passed and total count the
\* public and the hidden fixtures together and crashes is the number of fuzz
\* crashes of the report.
C11_ScoreFormula ==
  (ppc = "done" /\ response.ok /\ response.value.stage = "none") =>
    LET total == Len(public_fixtures) + Len(hidden_fixtures)
        passed == PassedOf("public", public_fixtures) + PassedOf("hidden", hidden_fixtures)
        crashes == response.value.fuzzResult.crashesFound
        base == IF total = 0 THEN 0 ELSE (passed * 100) \div total
        raw == base - 5 * crashes
    IN /\ response.value.totalTests = total
       /\ response.value.passedTests = passed
       /\ crashes = Len(fuzz_result.crashes_found)
       /\ response.value.score = IF raw < 0 THEN 0 ELSE raw
       /\ response.value.success <=> (response.value.score >= 70)

C11_Witness ==
  /\ ppc = "done"
  /\ response.ok
  /\ response.value.stage = "none"
  /\ response.value.totalTests = 2
  /\ response.value.passedTests = 2
  /\ response.value.fuzzResult.crashesFound = 1
  /\ response.value.score = 95
  /\ response.value.success

\* the stage a position of grade_with_full_pipeline belongs to, in the order
\* of the steps of the function: 0 workspace and public fixtures, 1 prepare,
\* 2 compile, 3 public tests, 4 hidden tests, 5 fuzz, 6 aggregate
StageRank(pc) ==
  CASE pc \in {"workspace", "fetch_public"} -> 0
    [] pc = "prepare" -> 1
    [] pc \in {"compile", "compile_wait"} -> 2
    [] pc \in {"public", "public_wait"} -> 3
    [] pc \in {"fetch_hidden", "hidden", "hidden_wait"} -> 4
    [] pc \in {"fuzz", "fuzz_loop", "fuzz_wait"} -> 5
    [] pc = "aggregate" -> 6
    [] OTHER -> 7

\* the stage that makes an execution
CallRank(stage) ==
  CASE stage = "compile" -> 2
    [] stage = "public" -> 3
    [] stage = "hidden" -> 4
    [] stage = "fuzz" -> 5

AllCallsEnded(cs) == \A i \in DOMAIN cs : cs[i].outcome # "running"

\* at most one execution of the invocation is in flight, it is the last one
\* started and it belongs to the stage the pipeline is in; the executions were
\* started in the order of the stages
C12_OneInFlight ==
  /\ \A i \in 1..(Len(calls) - 1) :
        /\ calls[i].outcome # "running"
        /\ CallRank(calls[i].stage) <= CallRank(calls[i + 1].stage)
  /\ (xpc # "idle") <=> (calls # <<>> /\ calls[Len(calls)].outcome = "running")
  /\ (calls # <<>> /\ calls[Len(calls)].outcome = "running")
        => StageRank(ppc) = CallRank(calls[Len(calls)].stage)

\* the executions a stage has started
CallsIn(stage) == Cardinality({i \in DOMAIN calls : calls[i].stage = stage})

\* the executions run_test_suite makes for a list: one `forge test` for a
\* non-empty solidity list, one per fixture otherwise
SuiteCalls(fixtures) ==
  IF job.language = "solidity" THEN (IF Len(fixtures) > 0 THEN 1 ELSE 0)
  ELSE Len(fixtures)

\* a stage is entered only when every stage before it has run to its end:
\* the code is prepared, the compile command has succeeded, each suite has
\* made all its executions, and all of them have returned
C12_EarlierStagesDone ==
  LET rank == StageRank(ppc)
  IN /\ rank \in 2..6 => workspace_exists
     /\ rank \in 3..6 =>
           (calls # <<>> /\ calls[1] = [stage |-> "compile", outcome |-> "success"]
             /\ CallsIn("compile") = 1)
     /\ rank \in 0..3 => CallsIn("hidden") = 0
     /\ rank \in 0..4 => CallsIn("fuzz") = 0
     /\ rank \in 4..6 =>
           (CallsIn("public") = SuiteCalls(public_fixtures)
             /\ public_test_results.total = Len(public_fixtures))
     /\ rank \in 5..6 =>
           (CallsIn("hidden") = SuiteCalls(hidden_fixtures)
             /\ hidden_test_results.total = Len(hidden_fixtures))
     /\ rank = 6 =>
           (AllCallsEnded(calls)
             /\ CallsIn("fuzz") <= NumTestInputs(Len(public_fixtures)))
     /\ rank \in {0, 1} => calls = <<>>

C13_RequestNeedNotWait ==
  \A r \in DOMAIN reqs : reqs[r] = "waiting" => ENABLED HG_Lock(r)

\* the requests whose pipeline invocation is in progress
Running == {r \in DOMAIN reqs : reqs[r] = "running"}

\* C14: no two pipeline invocations that overlap in time use the same
\* workspace directory, the same cgroup or the same ephemeral volume, also
\* when they name the same absolute-path challenge_id: while one invocation is
\* in its pipeline, or an execution holds a cgroup or a volume, no other
\* invocation is in progress.
C14_NoSharedResources ==
  /\ Cardinality(Running) <= 1
  /\ (ppc # "idle") <=> (Cardinality(Running) = 1)
  /\ (xpc # "idle" \/ cgroup # 0 \/ temp_mount_point # 0) => Cardinality(Running) = 1

\* one request runs in the workspace an absolute challenge_id names and holds
\* a cgroup and a mounted volume, while another request has arrived
C14_Witness ==
  /\ \E r \in DOMAIN reqs : reqs[r] = "running"
  /\ \E r \in DOMAIN reqs : reqs[r] = "waiting"
  /\ job.challenge_abs
  /\ workspace_exists
  /\ cgroup \in cgroups
  /\ temp_mount_point \in mounts
  /\ child.state = "running"

FetchDone(kind) == fx_pc = "done" /\ fx_kind = kind
\* the fixture parse_single_fixture makes of an object with these two fields only
PlainFixture(id, timeout) ==
  parse_single_fixture([id |-> JStr(id), timeout |-> JNum(timeout)]).value
Logged(event) == \E i \in DOMAIN fx_log : fx_log[i] = event

\* C16: when a public fetch that missed the cache has written the file and
\* returned, the file reads back as the fixtures it returned; and a public
\* fetch that ends while the file is still as such a fetch left it, without
\* having written it itself, returns those same fixtures and made no GET.
C16_CacheServesLaterFetches ==
  /\ (FetchDone("public") /\ Logged("cache_write") /\ fx_ret.ok /\ miss_result.valid)
       => /\ get_cached_fixtures(cache_file) = fx_ret
          /\ cache_file.text = to_string_pretty(fixtures_json(fx_ret.value))
          /\ miss_result.fixtures = fx_ret.value
  /\ (FetchDone("public") /\ ~Logged("cache_write") /\ miss_result.valid)
       => /\ fx_ret = Ok(miss_result.fixtures)
          /\ ~Logged("get_public")
          /\ fx_log = <<"cache_exists", "cache_read">>

C16_Witness ==
  /\ FetchDone("public")
  /\ fx_n >= 2
  /\ miss_result.valid
  /\ fx_log = <<"cache_exists", "cache_read">>
  /\ fx_ret = Ok(<<PlainFixture("f1", FIXTURE_DEFAULT_TIMEOUT)>>)

\* C17: a hidden fetch touches nothing of the cache: all it logs is its one
\* GET to the hidden-tests endpoint, made before it returns anything, and it
\* read no cache text; and whatever public and hidden fetches have run, the
\* text of the cache file was never written by a hidden fetch.
C17_HiddenNeverCached ==
  /\ fx_kind = "hidden"
       => /\ \A i \in DOMAIN fx_log : fx_log[i] = "get_hidden"
          /\ fx_cached = NoValue
          /\ cache_content = NoText
          /\ fx_pc \in {"get", "parse", "done"}
          /\ (fx_pc = "get") <=> (fx_log = <<>>)
          /\ (fx_pc # "get") => fx_log = <<"get_hidden">>
  /\ cache_file.origin # "hidden"

C17_Witness ==
  /\ FetchDone("hidden")
  /\ fx_n >= 2
  /\ fx_ret = Ok(<<PlainFixture("f1", 5)>>)
  /\ cache_file.exists
  /\ cache_file.origin = "public"
  /\ cache_file.text = to_string_pretty(JsonArray(<<>>))

\* C18 as stated: the text a public fetch reads from the cache file is never
\* a partly written one (a proper prefix of the text of a cache write).
C18_NoTornRead == cache_content.written # "part"

\* C19 as stated: a public fetch whose GET and parse succeeded returns the
\* parsed fixtures, whether or not the write of the cache file succeeded.
C19_CacheWriteFailureNonFatal ==
  (FetchDone("public") /\ fx_fixtures.ok) => fx_ret = Ok(fx_fixtures.value)

\* the errors get_cached_fixtures gives for a cache file that is there but
\* cannot be read or is no fixture array
BadCacheErrors ==
  {"Failed to read cache", "Failed to parse cache", "Fixtures data is not an array",
   "Fixture missing id"}
FoundBadCache == ~fx_cached.ok /\ fx_cached.err \in BadCacheErrors

\* C20 as stated: a public fetch that found a cache file it could not read or
\* parse has made the remote GET before it returns, and what it returns is
\* the result of that GET: the error of the request, or else what
\* parse_fixtures makes of the body (the fixtures of the body when it parses).
C20_BadCacheFallsBack ==
  /\ (fx_kind = "public" /\ FoundBadCache)
       => /\ fx_pc # "lookup"
          /\ (fx_pc = "get") <=> ~Logged("get_public")
          /\ FetchDone("public") => Logged("get_public")
  /\ (FetchDone("public") /\ FoundBadCache)
       => IF fx_fixtures = NoValue
          THEN ~fx_ret.ok /\ fx_ret.err \in {"Failed to fetch", "Failed to fetch: HTTP",
                                              "Failed to parse JSON"}
          ELSE fx_ret = fx_fixtures

(***************************************************************************)
(* Properties of parse_fixtures and of the cache round trip                *)
(***************************************************************************)
\* the fields of a TestFixture (fixtures.rs 9-18)
FixtureFields ==
  {"id", "name", "description", "input", "expected_output", "hidden", "timeout",
   "gas_limit"}
SameFixtures(a, b) ==
  /\ Len(a) = Len(b)
  /\ \A i \in DOMAIN a :
       /\ DOMAIN a[i] = FixtureFields
       /\ DOMAIN b[i] = FixtureFields
       /\ \A f \in FixtureFields : a[i][f] = b[i][f]

HoldsString(o, key) == key \in DOMAIN o /\ o[key].kind = "string"
HoldsBool(o, key) == key \in DOMAIN o /\ o[key].kind = "bool"
HoldsUnsigned(o, key) == key \in DOMAIN o /\ o[key].kind = "number" /\ o[key].n >= 0

\* C22: parse_fixtures of an array whose elements all have a string id gives
\* one fixture per element, in the order of the array, each field being the
\* value the element has for it (a string for name and description, any value
\* for input and expected_output, a boolean for hidden, an unsigned integer
\* for timeout and gas_limit) or else its default: "Unnamed test", "", null,
\* null, false, 30, 1000000; unknown keys change nothing.  Of data that is no
\* array, or has an element without a string id, it gives an error and no
\* fixtures, and so does the fetch.
C22_ParseFixtures ==
  fx_fixtures # NoValue =>
    LET items == fx_body.items IN
    IF fx_body.kind = "array" /\ \A i \in DOMAIN items : HoldsString(items[i], "id")
    THEN /\ fx_fixtures.ok
         /\ Len(fx_fixtures.value) = Len(items)
         /\ \A i \in DOMAIN items :
              LET o == items[i]
                  f == fx_fixtures.value[i]
              IN /\ f.id = o["id"].s
                 /\ f.name = IF HoldsString(o, "name") THEN o["name"].s ELSE "Unnamed test"
                 /\ f.description =
                      IF HoldsString(o, "description") THEN o["description"].s ELSE ""
                 /\ f.input = IF "input" \in DOMAIN o THEN o["input"] ELSE JNull
                 /\ f.expected_output =
                      IF "expected_output" \in DOMAIN o THEN o["expected_output"] ELSE JNull
                 /\ f.hidden = IF HoldsBool(o, "hidden") THEN o["hidden"].b ELSE FALSE
                 /\ f.timeout = IF HoldsUnsigned(o, "timeout") THEN o["timeout"].n ELSE 30
                 /\ f.gas_limit =
                      IF HoldsUnsigned(o, "gas_limit") THEN o["gas_limit"].n ELSE 1000000
                 /\ DOMAIN f = FixtureFields
    ELSE /\ fx_fixtures = Err(IF fx_body.kind = "array" THEN "Fixture missing id"
                              ELSE "Fixtures data is not an array")
         /\ FetchDone("public")
         /\ fx_ret = fx_fixtures

C22_Witness ==
  /\ fx_body = JsonArray(<<FullObject("a"), [id |-> JStr("b")]>>)
  /\ fx_fixtures.ok
  /\ Len(fx_fixtures.value) = 2
  /\ fx_fixtures.value[1].name = "n"
  /\ fx_fixtures.value[1].timeout = 5
  /\ fx_fixtures.value[2] = [id |-> "b", name |-> "Unnamed test", description |-> "",
                             input |-> JNull, expected_output |-> JNull, hidden |-> FALSE,
                             timeout |-> 30, gas_limit |-> 1000000]

\* C23 as stated: every fixture parse_fixtures has produced, from the body of
\* a response or from the text of the cache file, has a non-empty id and a
\* timeout greater than 0.
ValidFixtures(parsed) ==
  parsed.ok => \A i \in DOMAIN parsed.value :
                  parsed.value[i].id # "" /\ parsed.value[i].timeout > 0
C23_FixturesValid == ValidFixtures(fx_fixtures) /\ ValidFixtures(fx_cached)

(***************************************************************************)
(* Failures inside the pipeline                                            *)
(***************************************************************************)
FetchErrors == {"Failed to fetch fixtures", "Failed to fetch hidden tests"}

\* C24: a failed fetch of the public or of the hidden fixtures leaves that
\* list empty and the pipeline running: the step after it is the next stage
\* with no response set, and no response is ever the error of a fetch. A
\* report made when both lists are empty has totalTests = 0, score = 0 and
\* success = false.
C24_FetchFailureTolerated ==
  /\ fetched.public = "failed"
       => /\ public_fixtures = <<>>
          /\ ppc \notin {"idle", "workspace", "fetch_public"}
          /\ ppc = "prepare" => response = NoValue
  /\ fetched.hidden = "failed"
       => /\ hidden_fixtures = <<>>
          /\ ppc \in {"hidden", "hidden_wait", "fuzz", "fuzz_loop", "fuzz_wait",
                      "aggregate", "done"}
          /\ ppc = "hidden" => response = NoValue
  /\ ~response.ok => response.err \notin FetchErrors
  /\ (ppc = "done" /\ response.ok /\ public_fixtures = <<>> /\ hidden_fixtures = <<>>)
       => /\ response.value.totalTests = 0
          /\ response.value.score = 0
          /\ response.value.success = FALSE

C24_Witness ==
  /\ ppc = "done"
  /\ fetched.public = "failed"
  /\ fetched.hidden = "failed"
  /\ response.ok
  /\ response.value.stage = "none"
  /\ response.value.totalTests = 0
  /\ response.value.score = 0
  /\ response.value.success = FALSE
  /\ response.value.fuzzResult.inputsTested > 0

\* errors of the pipeline that execute_in_sandbox never gives (worker.rs 226,
\* 341)
OwnErrors == {"Failed to write code file", "Failed to write test input"}
GradedStages == {"compile", "public", "hidden"}

\* C25: an execution of the compile, public-test or hidden-test stage that
\* returned an error is the last execution of the request: its stage was left
\* at once, no later execution was started, and the pipeline has returned an
\* error, the one of the sandbox, and no report.
C25_SandboxErrorAborts ==
  \A i \in DOMAIN calls :
    (calls[i].stage \in GradedStages /\ calls[i].outcome = "error")
      => /\ i = Len(calls)
         /\ xpc = "idle"
         /\ ppc = "done"
         /\ ~response.ok
         /\ response.err \notin OwnErrors \cup FetchErrors \cup {"unset"}

C25_Witness ==
  /\ Len(calls) = 2
  /\ calls[1] = [stage |-> "compile", outcome |-> "success"]
  /\ calls[2] = [stage |-> "public", outcome |-> "error"]
  /\ Len(public_fixtures) = 1
  /\ ppc = "done"
  /\ response = Err("Execution timed out")

\* the crashes of a list that stand for an execution that returned Err
SandboxCrashes(crashes) ==
  Cardinality({i \in DOMAIN crashes : crashes[i].sandbox_error})
FuzzCalls == Cardinality({i \in DOMAIN calls : calls[i].stage = "fuzz"})

\* C26: each execution of a fuzz input that returned an error has added one
\* crash, of severity Medium and with no gas, and the campaign went on: it
\* is still in its loop or has returned a FuzzResult that counts every input
\* of the campaign as tested and holds one such crash for every error; the
\* request ends with a report.
C26_FuzzErrorIsOneCrash ==
  /\ ppc \in {"fuzz_loop", "fuzz_wait"}
       => /\ SandboxCrashes(fuzz.crashes_found) = CallsOf("fuzz", "error")
          /\ \A i \in DOMAIN fuzz.crashes_found :
               fuzz.crashes_found[i].sandbox_error
                 => /\ fuzz.crashes_found[i].severity = "Medium"
                    /\ fuzz.crashes_found[i].gas_used = 0
          /\ fuzz.inputs_tested = FuzzCalls
  /\ (ppc \in {"aggregate", "done"} /\ fuzz_result # NoFuzzResult)
       => /\ SandboxCrashes(fuzz_result.crashes_found) = CallsOf("fuzz", "error")
          /\ fuzz_result.inputs_tested = NumTestInputs(Len(public_fixtures))
          /\ FuzzCalls = fuzz_result.inputs_tested
  /\ (ppc = "done" /\ CallsOf("fuzz", "error") > 0) => response.ok

C26_Witness ==
  /\ ppc = "done"
  /\ Len(calls) >= 2
  /\ calls[Len(calls) - 1] = [stage |-> "fuzz", outcome |-> "error"]
  /\ calls[Len(calls)].stage = "fuzz"
  /\ calls[Len(calls)].outcome # "error"
  /\ fuzz_result.inputs_tested = max_iterations
  /\ SandboxCrashes(fuzz_result.crashes_found) = 1
  /\ response.ok
  /\ response.value.fuzzResult.crashesFound >= 1

(***************************************************************************)
(* The inputs of a fuzz campaign                                           *)
(***************************************************************************)
SameCampaign == seed[1] = seed[2] /\ base_fixtures[1] = base_fixtures[2]
Generating(k) == fz_pc[k] \in {"variations", "random", "shuffle"}
IsPrefix(a, b) == Len(a) <= Len(b) /\ a = SubSeq(b, 1, Len(a))

Visited == DOMAIN submission_database \ unvisited
MatchedIds == {matches[i].submission_id : i \in DOMAIN matches}

\* C28 as stated: a stored submission with the fingerprint of the checked
\* one, once compared, is matched with similarity 1.0.
C28_SelfSimilarityIsOne ==
  \A submission_key \in Visited :
    (Compared(submission_key) /\ submission_database[submission_key] = fingerprint)
      => MatchedSubmission(submission_key, One) \in {matches[i] : i \in DOMAIN matches}

\* C29 as stated: of the submissions that have been compared, those with a
\* similarity of 0.3 or more are the ones in the matches, 0.3 itself included;
\* one with a similarity below 0.3, or one that is not compared, is never there.
C29_ThresholdInclusive ==
  /\ \A submission_key \in Visited :
       submission_key \in MatchedIds
         <=> /\ Compared(submission_key)
             /\ RGeq(calculate_similarity(fingerprint, submission_database[submission_key]),
                     Rat(3, 10))
  /\ MatchedIds \subseteq Visited

\* what the loop does: the matches are the compared submissions with a
\* similarity above 0.3, and 0.3 itself is discarded
ReportsAboveThreshold ==
  /\ \A submission_key \in Visited :
       submission_key \in MatchedIds
         <=> /\ Compared(submission_key)
             /\ RGt(calculate_similarity(fingerprint, submission_database[submission_key]),
                    Rat(3, 10))
  /\ MatchedIds \subseteq Visited

\* C30: in the result of a check, similarity_score is the greatest similarity
\* of the matched submissions, 0 when there is none, and risk_level is
\* Critical from 0.9 on, High from 0.7 on, Medium from 0.5 on, Low below.
C30_ScoreAndRisk ==
  plagiarism_result.ok =>
    LET r == plagiarism_result.value
        scores == {r.matched_submissions[i].similarity_score :
                     i \in DOMAIN r.matched_submissions}
        score == r.similarity_score
    IN /\ r.matched_submissions = matches
       /\ \A s \in scores : RGeq(score, s)
       /\ IF scores = {} THEN score = Zero ELSE score \in scores
       /\ r.risk_level = "Critical" <=> RGeq(score, Rat(9, 10))
       /\ r.risk_level = "High" <=> RGeq(score, Rat(7, 10)) /\ ~RGeq(score, Rat(9, 10))
       /\ r.risk_level = "Medium" <=> RGeq(score, Rat(5, 10)) /\ ~RGeq(score, Rat(7, 10))
       /\ r.risk_level = "Low" <=> ~RGeq(score, Rat(5, 10))

C30_Witness ==
  /\ ac_pc = "done"
  /\ plagiarism_result.ok
  /\ Len(plagiarism_result.value.matched_submissions) = 2
  /\ plagiarism_result.value.matched_submissions[1].similarity_score = Rat(1, 2)
  /\ RGt(Rat(1, 2), plagiarism_result.value.matched_submissions[2].similarity_score)
  /\ plagiarism_result.value.similarity_score = Rat(1, 2)
  /\ plagiarism_result.value.risk_level = "Medium"

\* the stored submissions of the challenge and language that is checked
SameChallenge(submission_key) ==
  Stored(submission_key).challenge_id = ch1

\* C31: a stored submission of the requesting user is never compared with
\* the checked one and never among the matches, whatever the database holds.
C31_OwnSubmissionsExcluded ==
  /\ \A submission_key \in Visited :
       Stored(submission_key).user = user_id
         => /\ submission_key \notin compared_keys
            /\ submission_key \notin MatchedIds
  /\ plagiarism_result.ok
       => \A i \in DOMAIN plagiarism_result.value.matched_submissions :
            Stored(plagiarism_result.value.matched_submissions[i].submission_id).user
              # user_id

\* the user's own earlier submission of the same source has been visited,
\* and another user's copy of it has been matched
C31_Witness ==
  /\ ac_pc = "done"
  /\ user_id = u1
  /\ SubmissionKey(ch1, rust, u1) \in Visited
  /\ submission_database[SubmissionKey(ch1, rust, u1)] = fingerprint
  /\ SubmissionKey(ch1, rust, u2) \in MatchedIds

\* C37 as stated: every stored submission of the same challenge and language
\* that belongs to another user is compared once the loop has visited it.
C37_OtherUsersCompared ==
  \A submission_key \in Visited :
    (SameChallenge(submission_key) /\ Stored(submission_key).user # user_id)
      => submission_key \in compared_keys

\* C32 as stated: from the prepare stage to the aggregate stage of an
\* invocation whose challenge_id is not an absolute path, the directory
\* allocated as its workspace exists.
C32_TempWorkspaceLives ==
  (~job.challenge_abs /\ StageRank(ppc) \in 1..6) => workspace_exists

\* C33 as stated: whatever executions came before, an execution applies the
\* limits of its own config and goes on to run its child; it never returns
\* because a limit could not be set.
C33_LimitsDoNotPersist ==
  /\ xpc = "spawn"
       => \A i \in DOMAIN RlimitRequests(config) :
            rlimits[RlimitRequests(config)[i][1]] = RlimitRequests(config)[i][2]
  /\ ~(xpc = "returned" /\ ~ret.ok /\ ret.err = "Failed to set limit")

NonDecreasing(events) ==
  \A i \in 1..(Len(events) - 1) : events[i].timestamp <= events[i + 1].timestamp

\* C34 as stated: in the trace an execution returns, in the list of a suite
\* and in the list run_test_suite hands to the pipeline, no event has a
\* timestamp smaller than that of the event before it.
C34_TimestampsNonDecreasing ==
  /\ NonDecreasing(tr_events)
  /\ NonDecreasing(tr_result)
  /\ tr_ret.ok => NonDecreasing(tr_ret.value)

\* what holds: the events of one execution are in order
OneExecutionInOrder == NonDecreasing(tr_events)

\* C35 as stated: a report made with enable_tracing false has a null
\* executionTrace, the compile-failure report included; the report of the
\* full path made with enable_tracing true has an object with the entries
\* compilation, public_tests, hidden_tests and fuzzing.
C35_ExecutionTrace ==
  (ppc = "done" /\ response.ok) =>
    /\ ~job.enable_tracing => response.value.executionTrace.kind = "null"
    /\ (job.enable_tracing /\ response.value.stage = "none")
         => /\ response.value.executionTrace.kind = "object"
            /\ DOMAIN response.value.executionTrace.fields
                 = {"compilation", "public_tests", "hidden_tests", "fuzzing"}

\* what holds: the report of the full path
FullPathTrace ==
  (ppc = "done" /\ response.ok /\ response.value.stage = "none") =>
    IF job.enable_tracing
    THEN /\ response.value.executionTrace.kind = "object"
         /\ DOMAIN response.value.executionTrace.fields
              = {"compilation", "public_tests", "hidden_tests", "fuzzing"}
    ELSE response.value.executionTrace.kind = "null"

InSuite == ppc \in {"public", "public_wait", "hidden", "hidden_wait"}

\* C36 as stated: once run_test_suite has returned, with its result or with
\* the error of a sandboxed execution, none of the test_input_<id>.json files
\* it wrote is left in the workspace.
C36_InputFilesRemoved == ~InSuite => input_files = {}

\* what holds: a suite that returns its result leaves no input file
InputFilesRemovedOnResult ==
  (~InSuite /\ ~(ppc = "done" /\ ~response.ok)) => input_files = {}

\* C38: the result of a campaign over n seed fixtures counts exactly
\* min(max_iterations, 10 * n + 50) tested inputs (10 and 50 as scaled by the
\* bounds), at most that many unique paths and crashes, and a coverage score
\* from 0 to 1.
C38_CampaignResult ==
  fetched.campaign = "ok" =>
    /\ fuzz_result.inputs_tested
         = Min(max_iterations, NumVariations * Len(public_fixtures) + NumRandomInputs)
    /\ fuzz_result.unique_paths <= fuzz_result.inputs_tested
    /\ Len(fuzz_result.crashes_found) <= fuzz_result.inputs_tested
    /\ RGeq(fuzz_result.coverage_score, Zero)
    /\ RGeq(One, fuzz_result.coverage_score)

\* a campaign over one seed fixture, cut to max_iterations inputs, with a
\* crash, two paths and a coverage point
C38_Witness ==
  /\ fetched.campaign = "ok"
  /\ Len(public_fixtures) = 1
  /\ NumVariations * Len(public_fixtures) + NumRandomInputs > max_iterations
  /\ fuzz_result.inputs_tested = max_iterations
  /\ fuzz_result.unique_paths = 2
  /\ Len(fuzz_result.crashes_found) = 1
  /\ RGt(fuzz_result.coverage_score, Zero)

\* time_limit (in milliseconds) rounded up to whole seconds
CeilSecs(ms) == (ms + 999) \div 1000

\* C39 as stated: once the limits of an execution are applied, the CPU-time
\* limit of the process is its time_limit rounded up to whole seconds.
C39_CpuLimitRoundedUp ==
  xpc \in {"spawn", "attach"} => rlimits.cpu = CeilSecs(config.time_limit)

\* what the code applies: the whole seconds of time_limit
CpuLimitWholeSeconds ==
  xpc \in {"spawn", "attach"} => rlimits.cpu = config.time_limit \div 1000

\* the two fingerprints of a finished calculate_similarity have different
\* hashes; their token sequences and histograms are equal and not empty
DifferentHash == sm_pc = "done" /\ sm_fp1.ast_hash # sm_fp2.ast_hash
EqualNonEmpty ==
  /\ sm_fp1.token_sequence = sm_fp2.token_sequence
  /\ sm_fp1.token_sequence # <<>>
  /\ sm_fp1.structural_features = sm_fp2.structural_features
  /\ DOMAIN sm_fp1.structural_features # {}

\* the claim as stated: with different hashes the similarity is never 1.0 and
\* is at most 0.6, and is strictly between 0 and 1 when the token sequences
\* and the histograms are equal and not empty
C40_AtMostSixTenths ==
  DifferentHash =>
    /\ sm_ret # F64One
    /\ FGeq(Lit(6, 10), sm_ret)
    /\ EqualNonEmpty => FGt(sm_ret, F64Zero) /\ FGt(F64One, sm_ret)

\* C40: two fingerprints with different ast_hash never have similarity 1.0:
\* their similarity is at most the f64 sum 0.4 + 0.2, which is
\* 0.6000000000000001; when their token sequences and histograms are equal
\* and not empty the similarity is strictly between 0 and 1
C40_DifferentHashSimilarity ==
  DifferentHash =>
    /\ sm_ret # F64One
    /\ FGeq(FAdd(Lit(4, 10), Lit(2, 10)), sm_ret)
    /\ EqualNonEmpty => FGt(sm_ret, F64Zero) /\ FGt(F64One, sm_ret)
\* two sources that differ in a name only have been compared: the similarity
\* is the sum of the weights of the tokens and of the structure
C40_Witness ==
  /\ DifferentHash
  /\ EqualNonEmpty
  /\ sm_ret = FAdd(Lit(4, 10), Lit(2, 10))
  /\ FGt(sm_ret, Lit(6, 10))

====
